---------------------------- MODULE Spec2Model ----------------------------
(***************************************************************************)
(* Ingestion pipeline of GoFomentos: the job orchestrator                  *)
(* (JobSchedulerService), the JobExecution entity and its repository, the  *)
(* progressive LLM extractor, the canonical store of editais and the       *)
(* vector index (ChromaDBService).                                         *)
(*                                                                         *)
(* The event loop is single threaded: every action below is the code that  *)
(* runs between two awaits of one coroutine.                               *)
(***************************************************************************)
EXTENDS Integers, Sequences, FiniteSets, TLC

(***************************************************************************)
(* Bounds of the model.                                                    *)
(***************************************************************************)
MaxPdfs == 2        \* PDFs one run may discover
MaxCalls == 2       \* calls (detail pages / sections) of a nested listing
MaxChunks == 2      \* chunks of the longest PDF text
MaxCancels == 1     \* DELETE /jobs/{id} requests in one behaviour
MaxFaults == 1      \* failures the environment injects in one behaviour
MaxAdds == 2        \* add_chunk calls on the vector service alone

(***************************************************************************)
(* Program constants.                                                      *)
(***************************************************************************)
CHUNK_SIZE == 3000
CHUNK_OVERLAP == 300
MAX_RETRIES == 1

(***************************************************************************)
(* Python values.  A dict value is None, a str, a number or a bool; a dict *)
(* is a function from its keys.  An Optional[T] that is not a dict value   *)
(* is a sequence of length 0 (None) or 1.                                  *)
(***************************************************************************)
None == [t |-> "none"]
Str(s) == [t |-> "str", s |-> s]
Num(n) == [t |-> "num", n |-> n]
Bool(b) == [t |-> "bool", b |-> b]

EmptyDict == [k \in {} |-> None]
DictGet(d, k) == IF k \in DOMAIN d THEN d[k] ELSE None
DictSet(d, k, v) == [x \in DOMAIN d \cup {k} |-> IF x = k THEN v ELSE d[x]]
\* {**a, **b}
DictUnion(a, b) == [x \in DOMAIN a \cup DOMAIN b |-> IF x \in DOMAIN b THEN b[x] ELSE a[x]]

Nothing == <<>>
Some(x) == <<x>>
IsSome(o) == Len(o) = 1
Get(o) == o[1]

RECURSIVE Gcd(_, _)
Gcd(a, b) == IF b = 0 THEN a ELSE Gcd(b, a % b)
\* a float that is the quotient n / d, kept exact
Frac(n, d) == LET g == Gcd(n, d) IN [num |-> n \div g, den |-> d \div g]
FracLeq(a, b) == a.num * b.den <= b.num * a.den
FracLess(a, b) == a.num * b.den < b.num * a.den

RECURSIVE SeqSum(_)
SeqSum(s) == IF s = <<>> THEN 0 ELSE Head(s) + SeqSum(Tail(s))

(***************************************************************************)
(* The sources and how their run coroutines differ.                        *)
(***************************************************************************)
Sources == {"cnpq", "fapesq", "paraiba_gov", "confap", "capes", "finep"}

\* the run coroutine starts with  self.running_jobs[job_id] = True
RegistersRun(src) == src \in {"cnpq", "confap", "capes", "finep"}

\* "flat": one list of PDFs; "sections": calls that carry their PDFs (CAPES);
\* "percall": the PDFs of a call are scraped from its detail page
Shape(src) ==
    CASE src \in {"cnpq", "fapesq", "paraiba_gov"} -> "flat"
      [] src = "capes" -> "sections"
      [] OTHER -> "percall"

\* the run re-issues a final commit with the source's metadata
Recommits(src) == src # "cnpq"

Financiador(src) ==
    CASE src = "fapesq" -> "FAPESQ-PB"
      [] src = "paraiba_gov" -> "Governo da Paraiba - SECTIES"
      [] src = "confap" -> "CONFAP"
      [] src = "capes" -> "CAPES"
      [] OTHER -> "FINEP"

Origem(src) ==
    CASE src = "fapesq" -> "FAPESQ"
      [] src = "paraiba_gov" -> "Paraiba Gov"
      [] src = "confap" -> "CONFAP"
      [] src = "capes" -> "CAPES"
      [] OTHER -> "FINEP"

\* the metadata dict the run merges over the extracted variables
SourceMetadata(src, titulo) ==
    [k \in {"apelido_edital", "financiador_1", "origem"} |->
        CASE k = "apelido_edital" -> Str(titulo)
          [] k = "financiador_1" -> Str(Financiador(src))
          [] OTHER -> Str(Origem(src))]

(***************************************************************************)
(* The world the scrapers see: PDF number n is at PdfUrl(n) and its text   *)
(* has PdfTextLen(n) characters; the content at a URL does not change.     *)
(***************************************************************************)
PdfUrl(n) == "pdf" \o ToString(n)
DetailUrl(n) == "call" \o ToString(n)
PdfNumbers == 1..(MaxPdfs + 1)
PdfNumber(url) == CHOOSE n \in PdfNumbers : PdfUrl(n) = url
PdfChunks(n) == MaxChunks - ((n - 1) % MaxChunks)
PdfTextLen(n) == 1 + (PdfChunks(n) - 1) * (CHUNK_SIZE - CHUNK_OVERLAP)
UrlRange(from, count) == [x \in 1..count |-> PdfUrl(from + x - 1)]

\* _chunk_text: the start offsets of the chunks of a text of `len` characters
RECURSIVE ChunkStarts(_, _)
ChunkStarts(start, len) ==
    IF start < len
    THEN <<start>> \o ChunkStarts(start + CHUNK_SIZE - CHUNK_OVERLAP, len)
    ELSE <<>>
ChunkCount(len) == Len(ChunkStarts(0, len))

\* what the LLM answers for chunk i of the text at url (temperature 0)
LLMReply(url, i) ==
    [k \in {"apelido_edital", "financiador_1", "link", "uuid"} |->
        CASE k = "apelido_edital" -> IF i = 1 THEN Str("Edital") ELSE Str("Edital " \o url)
          [] k = "financiador_1" -> IF i = 1 THEN None ELSE Str("CNPq")
          [] k = "link" -> Str("http://llm/" \o url)
          [] OTHER -> Str("llm-uuid")]

\* _extract_chunk on a reply that is not valid JSON
InvalidReply == [k \in {"erro", "raw"} |->
                    IF k = "erro" THEN Str("resposta_invalida") ELSE Str("raw text")]

(***************************************************************************)
(* JobExecution (domain/entities/job_execution.py).  A timestamp is        *)
(* modelled by whether it is set.                                          *)
(***************************************************************************)
JobExecutionCreate(id, job_name) ==
    [id |-> id, job_name |-> job_name, status |-> "pending",
     started_at |-> FALSE, finished_at |-> FALSE,
     progress |-> Frac(0, 1), total_editais |-> 0, processed_editais |-> 0,
     failed_editais |-> 0, errors |-> <<>>, result_summary |-> Nothing]

JobStart(job) == [job EXCEPT !.status = "running", !.started_at = TRUE]

JobUpdateProgress(job, processed, total) ==
    [job EXCEPT !.processed_editais = processed,
                !.total_editais = total,
                !.progress = IF total > 0 THEN Frac(processed * 100, total)
                                          ELSE Frac(0, 1)]

JobAddError(job, url) ==
    [job EXCEPT !.errors = Append(@, [edital_url |-> url, is_critical |-> FALSE]),
                !.failed_editais = @ + 1]

JobComplete(job) ==
    [job EXCEPT !.status = "completed",
                !.finished_at = TRUE,
                !.progress = Frac(100, 1),
                !.result_summary = Some([total_editais |-> job.total_editais,
                                         processed_editais |-> job.processed_editais,
                                         failed_editais |-> job.failed_editais])]

\* a fail() that leaves the record as it is
JobUntouched(job) == job

JobFail(job) ==
    [job EXCEPT !.status = "failed",
                !.finished_at = TRUE,
                !.errors = Append(@, [edital_url |-> "", is_critical |-> TRUE])]

JobCancel(job) == [job EXCEPT !.status = "cancelled", !.finished_at = TRUE]

(***************************************************************************)
(* OpenAIExtractorService._merge_variables.                                *)
(***************************************************************************)
IsStr(v) == v.t = "str"
\* isinstance(v, (int, float)): bool is a subclass of int
IsNumber(v) == v.t \in {"num", "bool"}
\* v == 0 in Python: 0, 0.0 and False
IsZero(v) == (v.t = "num" /\ v.n = 0) \/ (v.t = "bool" /\ v.b = FALSE)
IsMissing(v) == v = None \/ v = Str("")

SystemKeys == {"link", "uuid"}

\* a merge that would add a number to the one it has
MergeSum(acc, value) ==
    IF IsMissing(value) THEN acc
    ELSE IF IsMissing(acc) THEN value
    ELSE IF acc.t = "num" /\ value.t = "num" THEN [t |-> "num", n |-> acc.n + value.n]
    ELSE acc

\* a merge that would keep what the accumulator has, a null included
MergeKept(acc, value) == acc

MergeValue(acc, value) ==
    IF IsMissing(value) THEN acc
    ELSE IF IsMissing(acc) THEN value
    ELSE IF IsStr(value) /\ IsStr(acc)
         THEN IF Len(value.s) > Len(acc.s) THEN value ELSE acc
    ELSE IF IsNumber(value) /\ ~IsZero(value)
         THEN IF IsZero(acc) THEN value ELSE acc
    ELSE acc

\* a merge that would take link and uuid from the LLM like any other key
MergeAll(accumulated, new) ==
    [k \in DOMAIN accumulated \cup {k \in DOMAIN new : ~IsMissing(new[k])} |->
        IF k \notin DOMAIN new THEN accumulated[k]
        ELSE MergeValue(DictGet(accumulated, k), new[k])]

MergeVariables(accumulated, new) ==
    LET added == {k \in DOMAIN new \ SystemKeys : ~IsMissing(new[k])}
    IN  [k \in DOMAIN accumulated \cup added |->
            IF k \in SystemKeys \/ k \notin DOMAIN new
            THEN accumulated[k]
            ELSE MergeValue(DictGet(accumulated, k), new[k])]

(***************************************************************************)
(* State.                                                                  *)
(***************************************************************************)
VARIABLES
    job_repo,       \* collection job_executions: job id -> Optional document
    running_jobs,   \* JobSchedulerService.running_jobs: dict id -> bool
    task,           \* the run coroutine of each job: its locals and position
    canceller,      \* the cancel_job coroutine in flight, if any
    editais,        \* collection editais: uuid -> document
    chroma,         \* the vector collection: the entries by id
    issued,         \* the uuid4 draws of the runs, in order, with the URL each is for
    accepted,       \* history: the cancel_job calls that flipped a flag, and where
    returned,       \* history: what the finished cancel_job calls returned
    cancels,        \* cancel requests still allowed
    faults,         \* injected failures still allowed
    launches,       \* execute_now calls still allowed
    vector_service, \* ChromaDBService: the server's collection and the booted service
    scheduler,      \* the AsyncIOScheduler: its schedules and whether it runs
    conversation_repo, \* collection conversations: id -> Optional document
    sends,          \* the send_message requests: their locals and position
    attempt,        \* download_and_extract_pdf of each job: how the attempts of the call
                    \* in flight ended, and history: the calls that returned
    listing,        \* a listing row and the decision of each adapter's date filter
    response,       \* an HTTP response to a download and what each adapter made of it
    extraction,     \* one extract_variables_progressive call, await by await, and its history
    call            \* one call of a function without awaits: its name, arguments and result

\* the state the run coroutines, cancel_job and the vector service never touch
elsewhere == <<scheduler, conversation_repo, sends, attempt, listing, response,
               extraction, call>>

vars == <<job_repo, running_jobs, task, canceller, editais, chroma, issued,
          accepted, returned, cancels, faults, launches, vector_service, elsewhere>>

JobIds == {"job1", "job2"}

IdleTask ==
    [pc |-> "none", src |-> "", job |-> Nothing, calls |-> <<>>, ci |-> 0,
     links |-> <<>>, i |-> 0, total_pdfs |-> 0, processed_pdfs |-> 0,
     edital_uuid |-> "", chunk |-> 0, retry_count |-> 0,
     accumulated_vars |-> EmptyDict, paced |-> TRUE]

IdleCanceller == [pc |-> "idle", job_id |-> "", job |-> Nothing]

\* AsyncIOScheduler(): no schedule, not started
IdleScheduler == [jobs |-> <<>>, running |-> FALSE, starts |-> 0]

ConversationIds == {"c1", "c2"}

SendIds == {"s1", "s2"}

IdleSend == [pc |-> "none"]

\* no download in flight, none returned yet, no attempt failed yet
IdleDownload == [outcomes |-> <<>>, log |-> <<>>, failed |-> 0]

\* the scheduler is not started, no conversation exists, no request, no
\* download and no listing is in flight
ElsewhereIdle ==
    /\ scheduler = IdleScheduler
    /\ conversation_repo = [c \in ConversationIds |-> Nothing]
    /\ sends = [s \in SendIds |-> IdleSend]
    /\ attempt = [j \in JobIds |-> IdleDownload]
    /\ listing = Nothing
    /\ response = Nothing
    /\ extraction = Nothing
    /\ call = Nothing

\* await self.job_repo.update(job): $set of every field of job.to_dict()
RepoUpdate(repo, job) ==
    IF IsSome(repo[job.id]) THEN [repo EXCEPT ![job.id] = Some(job)] ELSE repo

\* a loop head that never sees the flag
NeverCancelled(j) == FALSE

\* self.running_jobs.get(job_id, True) is False
CancelRequested(j) == j \in DOMAIN running_jobs /\ running_jobs[j] = FALSE

(***************************************************************************)
(* The canonical store of editais (MongoEditalRepository).  `top` holds    *)
(* the top-level fields of the document other than the ones named here.    *)
(***************************************************************************)
SavePartialExtraction(store, edital_uuid, chunk_index, variables, status) ==
    LET chunk_data == [chunk_index |-> chunk_index, variables |-> variables]
    IN  IF edital_uuid \in DOMAIN store
        THEN [store EXCEPT ![edital_uuid].extraction_status = status,
                           ![edital_uuid].extraction_chunks = Append(@, chunk_data)]
        ELSE [u \in DOMAIN store \cup {edital_uuid} |->
                IF u = edital_uuid
                THEN [uuid |-> edital_uuid, extraction_status |-> status,
                      extraction_chunks |-> <<chunk_data>>,
                      consolidated_variables |-> Nothing, top |-> EmptyDict]
                ELSE store[u]]

\* the keys of consolidated_variables copied to the top level of the document
TopLevelKeys(consolidated_variables) ==
    {k \in DOMAIN consolidated_variables :
        consolidated_variables[k] # None /\ k \notin {"link", "uuid"}}

SaveFinalExtraction(store, edital_uuid, consolidated_variables, status) ==
    IF edital_uuid \in DOMAIN store
    THEN [store EXCEPT
            ![edital_uuid].extraction_status = status,
            ![edital_uuid].consolidated_variables = Some(consolidated_variables),
            ![edital_uuid].top =
                DictUnion(@, [k \in TopLevelKeys(consolidated_variables) |->
                                consolidated_variables[k]])]
    ELSE store

(***************************************************************************)
(* The vector index (ChromaDBService.add_chunk).                           *)
(***************************************************************************)
\* an id that would count the chunks from zero
ChunkIdFromZero(edital_uuid, chunk_index) ==
    edital_uuid \o "_chunk_" \o ToString(chunk_index - 1)

\* chunk_id = f"{edital_uuid}_chunk_{chunk_index}"
ChunkId(edital_uuid, chunk_index) == edital_uuid \o "_chunk_" \o ToString(chunk_index)

AddChunk(coll, edital_uuid, edital_name, chunk_index, total_chunks, link) ==
    LET chunk_id == ChunkId(edital_uuid, chunk_index)
    IN  IF chunk_id \in DOMAIN coll
        THEN coll
        ELSE [c \in DOMAIN coll \cup {chunk_id} |->
                IF c = chunk_id
                THEN [edital_uuid |-> edital_uuid, edital_name |-> edital_name,
                      chunk_index |-> chunk_index, total_chunks |-> total_chunks,
                      link |-> link]
                ELSE coll[c]]

\* str(uuid.uuid4()): a value no earlier draw returned
NewUuid == "e" \o ToString(Len(issued) + 1)

(***************************************************************************)
(* The loops of the run coroutines.  InnerHead is the head of the loop     *)
(* over the PDFs (of the listing, or of one call), OuterHead the head of   *)
(* the loop over the calls; both run to the next await.                    *)
(***************************************************************************)
Finish(t) == [t EXCEPT !.pc = "complete", !.job = Some(JobComplete(Get(t.job)))]

RECURSIVE InnerHead(_, _)
RECURSIVE OuterHead(_, _)
InnerHead(t, cancelled) ==
    IF t.i <= Len(t.links) /\ ~cancelled
    THEN [t EXCEPT !.pc = "download"]
    ELSE IF Shape(t.src) = "flat"
         THEN Finish(t)
         ELSE OuterHead([t EXCEPT !.ci = @ + 1], cancelled)

OuterHead(t, cancelled) ==
    IF t.ci <= Len(t.calls) /\ ~cancelled
    THEN IF Shape(t.src) = "percall"
         THEN [t EXCEPT !.pc = "detail"]
         ELSE InnerHead([t EXCEPT !.links = t.calls[t.ci].pdf_urls, !.i = 1], cancelled)
    ELSE Finish(t)

\* the PDF the run is at, and the title the listing gave it
PdfUrlOf(t) == t.links[t.i]
TituloOf(t) == IF Shape(t.src) = "flat" THEN "Titulo " \o PdfUrlOf(t)
                                          ELSE t.calls[t.ci].titulo

\* a loop that goes on to the next PDF without counting the one it finished
Uncounted(t) == [t EXCEPT !.pc = "progress"]

\* "Atualizar progresso": the job after one more PDF, as the source counts it
Progressed(t) ==
    IF Shape(t.src) = "flat"
    THEN [t EXCEPT !.job = Some(JobUpdateProgress(Get(t.job), t.i, Len(t.links))),
                   !.pc = "progress", !.paced = TRUE]
    ELSE [t EXCEPT !.processed_pdfs = @ + 1,
                   !.job = Some(JobUpdateProgress(Get(t.job), t.processed_pdfs + 1,
                                                  t.total_pdfs)),
                   !.pc = "progress", !.paced = TRUE]

\* the same write on the path that ends with `continue`: no sleep follows it
ProgressedUnpaced(t) == [Progressed(t) EXCEPT !.paced = FALSE]

\* the listings a sections source (CAPES) may return: every call has PDFs
SectionCounts ==
    {c \in UNION {[1..m -> 1..MaxPdfs] : m \in 0..MaxCalls} : SeqSum(c) <= MaxPdfs}
RECURSIVE SectionCalls(_, _, _)
SectionCalls(counts, n, from) ==
    IF counts = <<>> THEN <<>>
    ELSE <<[url |-> DetailUrl(n), titulo |-> "Chamadas " \o ToString(n),
            pdf_urls |-> UrlRange(from, Head(counts))]>>
         \o SectionCalls(Tail(counts), n + 1, from + Head(counts))
DetailCalls(m) ==
    [n \in 1..m |-> [url |-> DetailUrl(n), titulo |-> "Chamada " \o ToString(n),
                     pdf_urls |-> <<>>]]

(***************************************************************************)
(* The vector service as the runs use it: booted, on a collection this     *)
(* code created.                                                           *)
(***************************************************************************)
EMBEDDING_MODEL == "text-embedding-3-small"

\* the metadata create_collection is given
CreatedMetadata ==
    [k \in {"embedding_model", "embedding_provider"} |->
        IF k = "embedding_model" THEN Str(EMBEDDING_MODEL) ELSE Str("OpenAI")]

\* what the server holds for the collection name: whether it exists and its
\* metadata (None, or a dict); `found` is what the server held at boot
ServerCollection(exists, metadata, entries) ==
    [exists |-> exists, metadata |-> metadata, entries |-> entries]

BootedService ==
    [exists |-> TRUE, metadata |-> Some(CreatedMetadata), booted |-> TRUE,
     recreated |-> FALSE, adds |-> 0, clears |-> 0, stats |-> Nothing,
     found |-> ServerCollection(FALSE, Nothing, [c \in {} |-> 0])]

Init ==
    /\ job_repo = [j \in JobIds |-> Nothing]
    /\ running_jobs = [j \in {} |-> TRUE]
    /\ task = [j \in JobIds |-> IdleTask]
    /\ canceller = IdleCanceller
    /\ editais = [u \in {} |-> 0]
    /\ chroma = [c \in {} |-> 0]
    /\ issued = <<>>
    /\ accepted = {}
    /\ returned = {}
    /\ cancels = MaxCancels
    /\ faults = MaxFaults
    /\ launches = 1
    /\ vector_service = BootedService
    /\ ElsewhereIdle

(***************************************************************************)
(* execute_<source>_job_now: the record is created pending and the run is  *)
(* scheduled with asyncio.create_task.                                     *)
(***************************************************************************)
FreeJobId == IF job_repo["job1"] = Nothing THEN "job1" ELSE "job2"

ExecuteNow(src) ==
    /\ launches > 0
    /\ \E j \in JobIds : job_repo[j] = Nothing
    /\ LET j == FreeJobId
       IN  /\ job_repo' = [job_repo EXCEPT
                              ![j] = Some(JobExecutionCreate(j, src \o "_scraping_manual"))]
           /\ task' = [task EXCEPT ![j] = [IdleTask EXCEPT !.pc = "created", !.src = src]]
    /\ launches' = launches - 1
    /\ UNCHANGED <<running_jobs, canceller, editais, chroma, issued, accepted,
                   returned, cancels, faults, vector_service, elsewhere>>

(***************************************************************************)
(* The run coroutines _execute_job, _execute_fapesq_job,                   *)
(* _execute_paraiba_gov_job, _execute_confap_job, _execute_capes_job and   *)
(* _execute_finep_job.                                                     *)
(***************************************************************************)
\* the coroutine starts: the id is registered (where the source does), the
\* record is requested
RunBegin(j) ==
    /\ task[j].pc = "created"
    /\ running_jobs' = IF RegistersRun(task[j].src)
                       THEN DictSet(running_jobs, j, TRUE)
                       ELSE running_jobs
    /\ task' = [task EXCEPT ![j].pc = "find"]
    /\ UNCHANGED <<job_repo, canceller, editais, chroma, issued, accepted,
                   returned, cancels, faults, launches, vector_service, elsewhere>>

\* job = await find_by_id(job_id); job.start()
RunFind(j) ==
    /\ task[j].pc = "find"
    /\ task' = IF IsSome(job_repo[j])
               THEN [task EXCEPT ![j].job = Some(JobStart(Get(job_repo[j]))),
                                 ![j].pc = "start"]
               ELSE [task EXCEPT ![j].pc = "done"]
    /\ running_jobs' = IF IsSome(job_repo[j])
                       THEN running_jobs
                       ELSE [k \in DOMAIN running_jobs \ {j} |-> running_jobs[k]]
    /\ UNCHANGED <<job_repo, canceller, editais, chroma, issued, accepted,
                   returned, cancels, faults, launches, vector_service, elsewhere>>

\* await update(job) after job.start()
RunStart(j) ==
    /\ task[j].pc = "start"
    /\ job_repo' = RepoUpdate(job_repo, Get(task[j].job))
    /\ task' = [task EXCEPT ![j].pc = "scrape"]
    /\ UNCHANGED <<running_jobs, canceller, editais, chroma, issued, accepted,
                   returned, cancels, faults, launches, vector_service, elsewhere>>

\* the listing returns (or raises); the total is written where the source
\* writes one; the loop starts
RunScrape(j) ==
    /\ task[j].pc = "scrape"
    /\ LET t == task[j]
           c == CancelRequested(j)
       IN  \/ /\ faults > 0
              /\ faults' = faults - 1
              /\ task' = [task EXCEPT ![j].pc = "fail_find"]
              /\ UNCHANGED job_repo
           \/ /\ Shape(t.src) = "flat"
              /\ \E n \in 0..MaxPdfs :
                    LET job == JobUpdateProgress(Get(t.job), 0, n)
                    IN  /\ job_repo' = RepoUpdate(job_repo, job)
                        /\ task' = [task EXCEPT ![j] =
                              InnerHead([t EXCEPT !.job = Some(job),
                                                  !.links = UrlRange(1, n), !.i = 1], c)]
              /\ UNCHANGED faults
           \/ /\ Shape(t.src) = "sections"
              /\ \E counts \in SectionCounts :
                    LET job == JobUpdateProgress(Get(t.job), 0, SeqSum(counts))
                    IN  /\ job_repo' = RepoUpdate(job_repo, job)
                        /\ task' = [task EXCEPT ![j] =
                              OuterHead([t EXCEPT !.job = Some(job),
                                                  !.calls = SectionCalls(counts, 1, 1),
                                                  !.total_pdfs = SeqSum(counts),
                                                  !.ci = 1], c)]
              /\ UNCHANGED faults
           \/ /\ Shape(t.src) = "percall"
              /\ \E m \in 0..MaxCalls :
                    task' = [task EXCEPT ![j] =
                              OuterHead([t EXCEPT !.calls = DetailCalls(m), !.ci = 1], c)]
              /\ UNCHANGED <<job_repo, faults>>
    /\ UNCHANGED <<running_jobs, canceller, editais, chroma, issued, accepted,
                   returned, cancels, launches, vector_service, elsewhere>>

\* extract_download_links / extract_pdf_links returns for call ci
RunDetail(j) ==
    /\ task[j].pc = "detail"
    /\ LET t == task[j]
           c == CancelRequested(j)
           detail_url == t.calls[t.ci].url
       IN  \E n \in 0..(MaxPdfs - t.total_pdfs) :
              IF n = 0
              THEN LET job == JobAddError(Get(t.job), detail_url)
                   IN  /\ job_repo' = RepoUpdate(job_repo, job)
                       /\ task' = [task EXCEPT ![j] =
                             OuterHead([t EXCEPT !.job = Some(job), !.ci = @ + 1], c)]
              ELSE LET job == JobUpdateProgress(Get(t.job), t.processed_pdfs,
                                                t.total_pdfs + n)
                   IN  /\ job_repo' = RepoUpdate(job_repo, job)
                       /\ task' = [task EXCEPT ![j] =
                             InnerHead([t EXCEPT !.job = Some(job),
                                                 !.total_pdfs = @ + n,
                                                 !.links = UrlRange(t.total_pdfs + 1, n),
                                                 !.i = 1], c)]
    /\ UNCHANGED <<running_jobs, canceller, editais, chroma, issued, accepted,
                   returned, cancels, faults, launches, vector_service, elsewhere>>

\* the run of j after download_and_extract_pdf returned the text, or None:
\* a uuid is drawn and the extraction starts, or the error is recorded and
\* the loop goes on
DownloadReturned(j, texto) ==
    LET t == task[j]
        c == CancelRequested(j)
        url == PdfUrlOf(t)
    IN  IF texto
        THEN /\ issued' = Append(issued, [uuid |-> NewUuid, url |-> url, job_id |-> j])
             /\ task' = [task EXCEPT ![j].edital_uuid = NewUuid,
                                     ![j].chunk = 1,
                                     ![j].retry_count = 0,
                                     ![j].accumulated_vars =
                                         [k \in {"link", "uuid"} |->
                                             IF k = "link" THEN Str(url) ELSE Str(NewUuid)],
                                     ![j].pc = "chunk"]
             /\ UNCHANGED job_repo
        ELSE LET job == JobAddError(Get(t.job), url)
             IN  /\ job_repo' = RepoUpdate(job_repo, job)
                 /\ task' = [task EXCEPT ![j] =
                       IF Shape(t.src) = "flat"
                       THEN InnerHead([t EXCEPT !.job = Some(job), !.i = @ + 1,
                                                !.paced = FALSE], c)
                       ELSE ProgressedUnpaced([t EXCEPT !.job = Some(job)])]
                 /\ UNCHANGED issued

\* download_and_extract_pdf returns the text, or None
RunDownload(j) ==
    /\ task[j].pc = "download"
    /\ \/ /\ DownloadReturned(j, TRUE)
          /\ UNCHANGED faults
       \/ /\ faults > 0
          /\ faults' = faults - 1
          /\ DownloadReturned(j, FALSE)
    /\ UNCHANGED <<running_jobs, canceller, editais, chroma, accepted,
                   returned, cancels, launches, vector_service, elsewhere>>

\* the chunks of the text the run is extracting
TotalChunks(t) == ChunkCount(PdfTextLen(PdfNumber(PdfUrlOf(t))))

\* the extraction moves to the next chunk, or to its final commit
NextChunk(t) ==
    IF t.chunk + 1 <= TotalChunks(t)
    THEN [t EXCEPT !.chunk = @ + 1, !.retry_count = 0]
    ELSE [t EXCEPT !.chunk = @ + 1, !.retry_count = 0, !.pc = "final",
                   !.accumulated_vars =
                       DictSet(DictSet(@, "link", Str(PdfUrlOf(t))),
                               "uuid", Str(t.edital_uuid))]

\* one attempt of the retry loop on chunk i that got the reply chunk_vars
ChunkSaved(j, chunk_vars, vectorized) ==
    LET t == task[j]
        name == IF DictGet(chunk_vars, "apelido_edital") \notin {None, Str("")}
                THEN chunk_vars["apelido_edital"].s
                ELSE IF DictGet(t.accumulated_vars, "apelido_edital") \notin {None, Str("")}
                     THEN t.accumulated_vars["apelido_edital"].s
                     ELSE "Edital CNPq"
    IN  /\ editais' = SavePartialExtraction(editais, t.edital_uuid, t.chunk,
                                            chunk_vars, "in_progress")
        /\ chroma' = IF vectorized
                     THEN AddChunk(chroma, t.edital_uuid, name, t.chunk,
                                   TotalChunks(t), PdfUrlOf(t))
                     ELSE chroma
        /\ task' = [task EXCEPT ![j] =
              NextChunk([t EXCEPT !.accumulated_vars = MergeVariables(@, chunk_vars)])]

\* extract_variables_progressive: one attempt on the current chunk
RunChunk(j) ==
    /\ task[j].pc = "chunk"
    /\ LET t == task[j]
       IN  \/ /\ ChunkSaved(j, LLMReply(PdfUrlOf(t), t.chunk), TRUE)
              /\ UNCHANGED faults
           \/ /\ faults > 0
              /\ faults' = faults - 1
              /\ \/ ChunkSaved(j, InvalidReply, TRUE)
                 \/ ChunkSaved(j, LLMReply(PdfUrlOf(t), t.chunk), FALSE)
                 \/ /\ task' = [task EXCEPT ![j] =
                          IF t.retry_count + 1 > MAX_RETRIES
                          THEN NextChunk(t)
                          ELSE [t EXCEPT !.retry_count = @ + 1]]
                    /\ UNCHANGED <<editais, chroma>>
    /\ UNCHANGED <<job_repo, running_jobs, canceller, issued, accepted,
                   returned, cancels, launches, vector_service, elsewhere>>

\* a per-PDF except clause that lets the exception out of the loop
Escaped(j) ==
    /\ task' = [task EXCEPT ![j].pc = "fail_find"]
    /\ UNCHANGED job_repo

\* the per-PDF except clause: job.add_error and its write, then the progress
Errored(j) ==
    LET t == task[j]
        job == JobAddError(Get(t.job), PdfUrlOf(t))
    IN  /\ job_repo' = RepoUpdate(job_repo, job)
        /\ task' = [task EXCEPT ![j] = Progressed([t EXCEPT !.job = Some(job)])]

\* the final commit of extract_variables_progressive
RunFinal(j) ==
    /\ task[j].pc = "final"
    /\ LET t == task[j]
       IN  \/ /\ editais' = SaveFinalExtraction(editais, t.edital_uuid,
                                                t.accumulated_vars, "completed")
              /\ task' = [task EXCEPT ![j] =
                    IF Recommits(t.src) THEN [t EXCEPT !.pc = "recommit"]
                                        ELSE Progressed(t)]
              /\ UNCHANGED <<job_repo, faults>>
           \/ /\ faults > 0
              /\ faults' = faults - 1
              /\ Errored(j)
              /\ UNCHANGED editais
    /\ UNCHANGED <<running_jobs, canceller, chroma, issued, accepted,
                   returned, cancels, launches, vector_service, elsewhere>>

\* "Merge metadata extra e salvar novamente"
RunRecommit(j) ==
    /\ task[j].pc = "recommit"
    /\ LET t == task[j]
           merged_vars == DictUnion(t.accumulated_vars,
                                    SourceMetadata(t.src, TituloOf(t)))
       IN  \/ /\ editais' = SaveFinalExtraction(editais, t.edital_uuid,
                                                merged_vars, "completed")
              /\ task' = [task EXCEPT ![j] = Progressed(t)]
              /\ UNCHANGED <<job_repo, faults>>
           \/ /\ faults > 0
              /\ faults' = faults - 1
              /\ Errored(j)
              /\ UNCHANGED editais
    /\ UNCHANGED <<running_jobs, canceller, chroma, issued, accepted,
                   returned, cancels, launches, vector_service, elsewhere>>

\* the progress is written; after the sleep, where the path has it (paced),
\* the loop goes on
RunProgress(j) ==
    /\ task[j].pc = "progress"
    /\ job_repo' = RepoUpdate(job_repo, Get(task[j].job))
    /\ task' = [task EXCEPT ![j] =
          InnerHead([task[j] EXCEPT !.i = @ + 1], CancelRequested(j))]
    /\ UNCHANGED <<running_jobs, canceller, editais, chroma, issued, accepted,
                   returned, cancels, faults, launches, vector_service, elsewhere>>

\* a finally clause that would leave the id registered
PoppedNothing(j) == running_jobs

\* finally: self.running_jobs.pop(job_id, None)
Popped(j) == [k \in DOMAIN running_jobs \ {j} |-> running_jobs[k]]

\* await update(job) after job.complete(), then the finally clause
RunComplete(j) ==
    /\ task[j].pc = "complete"
    /\ job_repo' = RepoUpdate(job_repo, Get(task[j].job))
    /\ running_jobs' = Popped(j)
    /\ task' = [task EXCEPT ![j].pc = "done"]
    /\ UNCHANGED <<canceller, editais, chroma, issued, accepted,
                   returned, cancels, faults, launches, vector_service, elsewhere>>

\* except Exception: job = await find_by_id(job_id); job.fail(str(e))
RunFailFind(j) ==
    /\ task[j].pc = "fail_find"
    /\ task' = IF IsSome(job_repo[j])
               THEN [task EXCEPT ![j].job = Some(JobFail(Get(job_repo[j]))),
                                 ![j].pc = "fail_write"]
               ELSE [task EXCEPT ![j].pc = "done"]
    /\ running_jobs' = IF IsSome(job_repo[j]) THEN running_jobs ELSE Popped(j)
    /\ UNCHANGED <<job_repo, canceller, editais, chroma, issued, accepted,
                   returned, cancels, faults, launches, vector_service, elsewhere>>

\* await update(job) after job.fail(), then the finally clause
RunFailWrite(j) ==
    /\ task[j].pc = "fail_write"
    /\ job_repo' = RepoUpdate(job_repo, Get(task[j].job))
    /\ running_jobs' = Popped(j)
    /\ task' = [task EXCEPT ![j].pc = "done"]
    /\ UNCHANGED <<canceller, editais, chroma, issued, accepted,
                   returned, cancels, faults, launches, vector_service, elsewhere>>

(***************************************************************************)
(* JobSchedulerService.cancel_job, called by DELETE /jobs/{job_id}.        *)
(***************************************************************************)
CancelCall(j) ==
    /\ cancels > 0
    /\ canceller.pc = "idle"
    /\ IsSome(job_repo[j])
    /\ cancels' = cancels - 1
    /\ IF j \in DOMAIN running_jobs
       THEN /\ running_jobs' = [running_jobs EXCEPT ![j] = FALSE]
            /\ canceller' = [pc |-> "find", job_id |-> j, job |-> Nothing]
            /\ accepted' =
                  IF running_jobs[j] = FALSE
                  THEN accepted
                  ELSE accepted \cup
                       {[job_id |-> j,
                         extracting |-> task[j].pc \in {"chunk", "final", "recommit"},
                         pdf |-> IF task[j].pc \in {"download", "chunk", "final", "recommit"}
                                 THEN PdfUrlOf(task[j]) ELSE ""]}
            /\ UNCHANGED returned
       ELSE /\ returned' = returned \cup {[job_id |-> j, result |-> FALSE, pc |-> task[j].pc]}
            /\ UNCHANGED <<running_jobs, canceller, accepted>>
    /\ UNCHANGED <<job_repo, task, editais, chroma, issued, faults, launches,
                   vector_service, elsewhere>>

CancelFind ==
    /\ canceller.pc = "find"
    /\ canceller' = [canceller EXCEPT
                        !.job = IF IsSome(job_repo[canceller.job_id])
                                THEN Some(JobCancel(Get(job_repo[canceller.job_id])))
                                ELSE Nothing,
                        !.pc = "update"]
    /\ UNCHANGED <<job_repo, running_jobs, task, editais, chroma, issued, accepted,
                   returned, cancels, faults, launches, vector_service, elsewhere>>

CancelUpdate ==
    /\ canceller.pc = "update"
    /\ job_repo' = IF IsSome(canceller.job)
                   THEN RepoUpdate(job_repo, Get(canceller.job))
                   ELSE job_repo
    /\ returned' = returned \cup {[job_id |-> canceller.job_id, result |-> TRUE, pc |-> ""]}
    /\ canceller' = IdleCanceller
    /\ UNCHANGED <<running_jobs, task, editais, chroma, issued, accepted,
                   cancels, faults, launches, vector_service, elsewhere>>

Run(j) ==
    \/ RunBegin(j) \/ RunFind(j) \/ RunStart(j) \/ RunScrape(j) \/ RunDetail(j)
    \/ RunDownload(j) \/ RunChunk(j) \/ RunFinal(j) \/ RunRecommit(j)
    \/ RunProgress(j) \/ RunComplete(j) \/ RunFailFind(j) \/ RunFailWrite(j)

Next ==
    \/ \E src \in Sources : ExecuteNow(src)
    \/ \E j \in JobIds : Run(j)
    \/ \E j \in JobIds : CancelCall(j)
    \/ CancelFind
    \/ CancelUpdate

Spec == Init /\ [][Next]_vars

(***************************************************************************)
(* Properties of cancellation and of the job record.                       *)
(***************************************************************************)
\* the run of job j has ended and no cancel_job call is in flight
Settled(j) == task[j].pc = "done" /\ canceller.pc = "idle"

\* C1: when cancel_job is called on a job whose run is in progress, then
\* once the run task has ended the persisted status of the job is
\* `cancelled`, never `completed` or `failed`, and finished_at is set.
\* Stated for the calls that arrive while a PDF is being processed.
C1_CancelledAtEnd ==
    \A a \in accepted :
        (a.pdf # "" /\ Settled(a.job_id)) =>
            /\ Get(job_repo[a.job_id]).status = "cancelled"
            /\ Get(job_repo[a.job_id]).finished_at

\* the run state machine of the job record
Successors(status) ==
    CASE status = "pending" -> {"running"}
      [] status = "running" -> {"completed", "failed", "cancelled"}
      [] OTHER -> {}

\* C2: under any interleaving of a run with cancel_job, every change of the
\* persisted status of a job follows the run state machine: pending ->
\* running; running -> completed, failed or cancelled; the terminal statuses
\* have no successor.
C2_StatusMachine ==
    [][\A j \in JobIds :
          (IsSome(job_repo[j]) /\ IsSome(job_repo'[j])
              /\ Get(job_repo'[j]).status # Get(job_repo[j]).status)
          => Get(job_repo'[j]).status \in Successors(Get(job_repo[j]).status)]_vars

\* the edital u of the PDF at url is complete: final commit written, every
\* chunk of the text in the canonical store and in the vector index
EditalWritten(u, url) ==
    /\ u \in DOMAIN editais
    /\ editais[u].extraction_status = "completed"
    /\ IsSome(editais[u].consolidated_variables)
    /\ \A i \in 1..ChunkCount(PdfTextLen(PdfNumber(url))) :
          /\ \E k \in 1..Len(editais[u].extraction_chunks) :
                editais[u].extraction_chunks[k].chunk_index = i
          /\ ChunkId(u, i) \in DOMAIN chroma

\* C3: after the cancel flag of a running job is flipped, the PDF being
\* processed finishes (its chunks and final commit are written, when nothing
\* else fails) and that run starts no further PDF download or extraction, in
\* flat runs and in runs with nested call/PDF loops.
C3_CurrentPdfFinishesNoneStarted ==
    /\ [](\A a \in accepted :
            (a.pdf # "" /\ task[a.job_id].pc = "done" /\ faults = MaxFaults) =>
                \E k \in 1..Len(issued) :
                    /\ issued[k].url = a.pdf
                    /\ issued[k].job_id = a.job_id
                    /\ EditalWritten(issued[k].uuid, a.pdf)
                    /\ \A m \in (k + 1)..Len(issued) : issued[m].job_id # a.job_id)
    /\ [][\A j \in JobIds :
            (j \in DOMAIN running_jobs /\ running_jobs[j] = FALSE) =>
                ~ /\ task'[j].pc = "download"
                  /\ <<task'[j].pc, task'[j].ci, task'[j].i>>
                        # <<task[j].pc, task[j].ci, task[j].i>>]_vars

\* C3 happens: a CONFAP run was cancelled in the middle of the extraction of
\* a PDF while a call remained; it has ended, that PDF is complete and it is
\* the only one the run started
C3_Witness ==
    \E a \in accepted :
        /\ a.extracting
        /\ task[a.job_id].pc = "done"
        /\ task[a.job_id].src = "confap"
        /\ task[a.job_id].ci <= Len(task[a.job_id].calls)
        /\ faults = MaxFaults
        /\ Len(issued) = 1
        /\ EditalWritten(issued[1].uuid, a.pdf)

\* C4: for every source, while the run of a job is in progress its id is in
\* the map of in-flight run ids (so cancel_job on it returns True).
C4_RunningIsRegistered ==
    /\ \A j \in JobIds :
          task[j].pc \notin {"none", "created", "done"} => j \in DOMAIN running_jobs
    /\ \A r \in returned : r.result = FALSE => r.pc \in {"created", "done"}

\* C5: in every persisted state of every job, processed_editais +
\* failed_editais <= total_editais.
C5_CountersBounded ==
    \A j \in JobIds :
        IsSome(job_repo[j]) =>
            Get(job_repo[j]).processed_editais + Get(job_repo[j]).failed_editais
                <= Get(job_repo[j]).total_editais

\* C6: within one run the persisted progress of a job never decreases from
\* one write of the run to its next, also where the total grows call by call.
C6_ProgressMonotone ==
    [][\A j \in JobIds :
          (IsSome(job_repo[j]) /\ IsSome(job_repo'[j]) /\ canceller' = canceller)
          => FracLeq(Get(job_repo[j]).progress, Get(job_repo'[j]).progress)]_vars

\* C7: after a job is cancelled while PDFs remain unprocessed, its final
\* persisted progress is processed/total*100, below 100.
C7_ProgressAfterCancel ==
    \A a \in accepted :
        LET job == Get(job_repo[a.job_id])
        IN  (a.pdf # "" /\ Settled(a.job_id)
                /\ job.processed_editais < job.total_editais) =>
                /\ job.progress = Frac(job.processed_editais * 100, job.total_editais)
                /\ FracLess(job.progress, Frac(100, 1))

(***************************************************************************)
(* The canonical record of an edital.                                      *)
(***************************************************************************)
\* C9: every edital record whose extraction_status is `completed` has
\* consolidated_variables, its `link` is the PDF URL used at ingest, and the
\* link and the id in consolidated_variables are the URL and the id given to
\* the extractor, also after the metadata re-commit of a source.
C9_CompletedCarriesLink ==
    \A k \in 1..Len(issued) :
        LET u == issued[k].uuid
            url == issued[k].url
        IN  (u \in DOMAIN editais /\ editais[u].extraction_status = "completed") =>
                /\ IsSome(editais[u].consolidated_variables)
                /\ DictGet(editais[u].top, "link") = Str(url)
                /\ DictGet(Get(editais[u].consolidated_variables), "link") = Str(url)
                /\ DictGet(Get(editais[u].consolidated_variables), "uuid") = Str(u)

(***************************************************************************)
(* A source is run again over the same content: after its first run ended, *)
(* or after the process died in the middle of it.                          *)
(***************************************************************************)
InitRerun ==
    /\ job_repo = [j \in JobIds |-> Nothing]
    /\ running_jobs = [j \in {} |-> TRUE]
    /\ task = [j \in JobIds |-> IdleTask]
    /\ canceller = IdleCanceller
    /\ editais = [u \in {} |-> 0]
    /\ chroma = [c \in {} |-> 0]
    /\ issued = <<>>
    /\ accepted = {}
    /\ returned = {}
    /\ cancels = 0
    /\ faults = MaxFaults
    /\ launches = 2
    /\ vector_service = BootedService
    /\ ElsewhereIdle

\* the process dies while the run of job j is in progress; a new process has
\* no run in flight
Crash(j) ==
    /\ task[j].pc \notin {"none", "created", "done", "crashed"}
    /\ task' = [task EXCEPT ![j].pc = "crashed"]
    /\ running_jobs' = [k \in {} |-> TRUE]
    /\ UNCHANGED <<job_repo, canceller, editais, chroma, issued, accepted,
                   returned, cancels, faults, launches, vector_service, elsewhere>>

\* the operator runs the source; again, once no run is in flight
ExecuteAgain(src) ==
    /\ \A j \in JobIds : task[j].pc \in {"none", "done", "crashed"}
    /\ \A j \in JobIds : task[j].pc # "none" => task[j].src = src
    /\ ExecuteNow(src)

NextRerun ==
    \/ \E src \in Sources : ExecuteAgain(src)
    \/ \E j \in JobIds : Run(j)
    \/ \E j \in JobIds : Crash(j)

SpecRerun == InitRerun /\ [][NextRerun]_vars

\* C8: running the same source again over the same PDF content writes vector
\* entries with the ids of the earlier run, so neither the vector index nor
\* the canonical store holds duplicate chunks or a second edital for that
\* content.
C8_RerunSameIds ==
    /\ \A k, m \in 1..Len(issued) :
          (issued[k].url = issued[m].url
              /\ issued[k].uuid \in DOMAIN editais /\ issued[m].uuid \in DOMAIN editais)
          => issued[k].uuid = issued[m].uuid
    /\ \A c, d \in DOMAIN chroma :
          (chroma[c].link = chroma[d].link /\ chroma[c].chunk_index = chroma[d].chunk_index)
          => c = d

(***************************************************************************)
(* ChromaDBService on its own: the service boots on whatever the server    *)
(* holds under the collection name, then serves add_chunk, get_stats and   *)
(* clear_collection.                                                       *)
(***************************************************************************)
RecordedModels == {"text-embedding-3-small", "text-embedding-ada-002"}
RecordedProviders == {"OpenAI", "SentenceTransformers"}

\* the metadata a collection found on the server may carry
FoundMetadata ==
    {Nothing} \cup
    {Some([k \in keys |-> IF k = "embedding_model" THEN Str(m) ELSE Str(p)]) :
        keys \in SUBSET {"embedding_model", "embedding_provider"},
        m \in RecordedModels, p \in RecordedProviders}

\* the entries a collection found on the server may hold
FoundEntries ==
    {[c \in {ChunkId("e0", i) : i \in chunks} |->
        [edital_uuid |-> "e0", edital_name |-> "Edital",
         chunk_index |-> CHOOSE i \in chunks : ChunkId("e0", i) = c,
         total_chunks |-> MaxChunks, link |-> "pdf0"]] :
            chunks \in SUBSET (1..MaxChunks)}

InitChroma ==
    /\ job_repo = [j \in JobIds |-> Nothing]
    /\ running_jobs = [j \in {} |-> TRUE]
    /\ task = [j \in JobIds |-> IdleTask]
    /\ canceller = IdleCanceller
    /\ editais = [u \in {} |-> 0]
    /\ issued = <<>>
    /\ accepted = {}
    /\ returned = {}
    /\ cancels = 0
    /\ faults = 0
    /\ launches = 0
    /\ ElsewhereIdle
    /\ \E exists \in BOOLEAN, metadata \in FoundMetadata, entries \in FoundEntries :
          /\ ~exists => (metadata = Nothing /\ DOMAIN entries = {})
          /\ chroma = entries
          /\ vector_service =
                [exists |-> exists, metadata |-> metadata, booted |-> FALSE,
                 recreated |-> FALSE, adds |-> 0, clears |-> 0, stats |-> Nothing,
                 found |-> ServerCollection(exists, metadata, entries)]

\* collection_metadata and collection_metadata.get("embedding_provider") == "OpenAI"
UsesOpenAI(metadata) ==
    /\ IsSome(metadata)
    /\ DOMAIN Get(metadata) # {}
    /\ DictGet(Get(metadata), "embedding_provider") = Str("OpenAI")

\* _ensure_collection: the service and the entries it leaves on the server
EnsureCollection(vs, entries) ==
    IF vs.exists /\ UsesOpenAI(vs.metadata)
    THEN [service |-> vs, entries |-> entries]
    ELSE [service |-> [vs EXCEPT !.exists = TRUE,
                                 !.metadata = Some(CreatedMetadata),
                                 !.recreated = TRUE],
          entries |-> [c \in {} |-> 0]]

UnchangedPipeline ==
    UNCHANGED <<job_repo, running_jobs, task, canceller, editais, issued,
                accepted, returned, cancels, faults, launches, elsewhere>>

\* ChromaDBService.__init__
Boot ==
    /\ ~vector_service.booted
    /\ LET r == EnsureCollection(vector_service, chroma)
       IN  /\ vector_service' = [r.service EXCEPT !.booted = TRUE]
           /\ chroma' = r.entries
    /\ UnchangedPipeline

\* add_chunk
VectorAddChunk ==
    /\ vector_service.booted
    /\ vector_service.adds < MaxAdds
    /\ \E n \in 1..MaxPdfs, i \in 1..MaxChunks :
          chroma' = AddChunk(chroma, "e" \o ToString(n), "Edital", i,
                             MaxChunks, PdfUrl(n))
    /\ vector_service' = [vector_service EXCEPT !.adds = @ + 1, !.stats = Nothing]
    /\ UnchangedPipeline

\* get_stats
GetStats ==
    /\ vector_service.booted
    /\ vector_service.stats = Nothing
    /\ LET metadata == vector_service.metadata
           model == IF IsSome(metadata) /\ "embedding_model" \in DOMAIN Get(metadata)
                    THEN Get(metadata)["embedding_model"].s
                    ELSE "UNKNOWN"
       IN  vector_service' =
              [vector_service EXCEPT
                  !.stats = Some([total_chunks |-> Cardinality(DOMAIN chroma),
                                  embedding_info |-> [model |-> model]])]
    /\ UNCHANGED chroma
    /\ UnchangedPipeline

\* clear_collection: delete_collection, then _ensure_collection
ClearCollection ==
    /\ vector_service.booted
    /\ vector_service.clears = 0
    /\ LET r == EnsureCollection([vector_service EXCEPT !.exists = FALSE,
                                                        !.metadata = Nothing],
                                 [c \in {} |-> 0])
       IN  /\ vector_service' = [r.service EXCEPT !.clears = @ + 1, !.stats = Nothing]
           /\ chroma' = r.entries
    /\ UnchangedPipeline

NextChroma ==
    \/ Boot
    \/ VectorAddChunk
    \/ GetStats
    \/ ClearCollection

SpecChroma == InitChroma /\ [][NextChroma]_vars

\* the model recorded on the collection the service found at boot, if any
RecordedModel ==
    LET f == vector_service.found
    IN  IF f.exists /\ IsSome(f.metadata) /\ "embedding_model" \in DOMAIN Get(f.metadata)
        THEN Some(Get(f.metadata)["embedding_model"].s)
        ELSE Nothing

\* C10: booting on a collection whose recorded model differs from the
\* configured one recreates it before the first add_chunk, and stats then
\* reports total_chunks = 0 and the configured model; when the recorded
\* model matches, the collection is reused with its entries intact.
C10_EmbeddingModelGuard ==
    (/\ vector_service.booted
     /\ vector_service.adds = 0
     /\ vector_service.clears = 0
     /\ IsSome(vector_service.stats)
     /\ IsSome(RecordedModel))
    => IF Get(RecordedModel) # EMBEDDING_MODEL
       THEN /\ vector_service.recreated
            /\ Get(vector_service.stats).total_chunks = 0
            /\ Get(vector_service.stats).embedding_info.model = EMBEDDING_MODEL
       ELSE /\ ~vector_service.recreated
            /\ chroma = vector_service.found.entries

(***************************************************************************)
(* Error accounting of the runs.                                           *)
(***************************************************************************)
\* the step is a failure of the PDF the run of j is at: the download gave
\* no text, or the final commit or the re-commit raised
PdfFailure(j) ==
    /\ task[j].pc \in {"download", "final", "recommit"}
    /\ task'[j] # task[j]
    /\ faults' = faults - 1

\* C11: a failure while processing one PDF is recorded in the errors of the
\* job with failed_editais incremented, the run goes on with its loop, and
\* the job does not become `failed` because of it: a failed job has no error
\* but the critical one of its listing.
C11_PdfFailureRecorded ==
    /\ [][\A j \in JobIds :
            PdfFailure(j) =>
                /\ Get(job_repo'[j]).errors =
                      Append(Get(task[j].job).errors,
                             [edital_url |-> PdfUrlOf(task[j]), is_critical |-> FALSE])
                /\ Get(job_repo'[j]).failed_editais = Get(task[j].job).failed_editais + 1
                /\ Get(job_repo'[j]).status # "failed"
                /\ task'[j].pc \in {"download", "detail", "progress", "complete"}]_vars
    /\ [](\A j \in JobIds :
            (IsSome(job_repo[j]) /\ Get(job_repo[j]).status = "failed") =>
                /\ Get(job_repo[j]).failed_editais = 0
                /\ \A k \in 1..Len(Get(job_repo[j]).errors) :
                      Get(job_repo[j]).errors[k].is_critical)

\* C11 happens: a run ended `completed` with the failure of its first PDF
\* recorded and its second PDF extracted
C11_Witness ==
    \E j \in JobIds :
        /\ task[j].pc = "done"
        /\ Get(job_repo[j]).status = "completed"
        /\ Get(job_repo[j]).failed_editais = 1
        /\ Get(job_repo[j]).errors = <<[edital_url |-> PdfUrl(1), is_critical |-> FALSE]>>
        /\ \E k \in 1..Len(issued) :
              /\ issued[k].url = PdfUrl(2)
              /\ EditalWritten(issued[k].uuid, PdfUrl(2))

\* the run of j went through the outer except clause
ListingRaised(j) ==
    \/ task[j].pc \in {"fail_find", "fail_write"}
    \/ task[j].pc = "done" /\ IsSome(task[j].job) /\ Get(task[j].job).status = "failed"

\* C12: if the listing of the source raises, the job goes to `failed` with
\* finished_at set and a critical error appended, and that run downloads,
\* extracts and writes nothing.
C12_ListingErrorFailsJob ==
    /\ [][\A j \in JobIds :
            /\ (task[j].pc = "scrape" /\ faults' = faults - 1) =>
                  /\ task'[j].pc = "fail_find"
                  /\ UNCHANGED <<editais, chroma, issued>>
            /\ (task[j].pc = "fail_find" /\ task'[j] # task[j]) =>
                  task'[j].pc = "fail_write"
            /\ (task[j].pc = "fail_write" /\ task'[j] # task[j]) =>
                  /\ task'[j].pc = "done"
                  /\ Get(job_repo'[j]).status = "failed"
                  /\ Get(job_repo'[j]).finished_at
                  /\ Len(Get(job_repo'[j]).errors) = Len(Get(job_repo[j]).errors) + 1
                  /\ Get(job_repo'[j]).errors[Len(Get(job_repo'[j]).errors)].is_critical]_vars
    /\ [](\A j \in JobIds :
            ListingRaised(j) =>
                /\ task[j].links = <<>>
                /\ \A k \in 1..Len(issued) : issued[k].job_id # j)

\* C12 happens: the listing of a run raised, the run has ended and its record
\* is `failed` with the critical error, and both stores are empty
C12_Witness ==
    \E j \in JobIds :
        /\ task[j].pc = "done"
        /\ ListingRaised(j)
        /\ Get(job_repo[j]).status = "failed"
        /\ Get(job_repo[j]).finished_at
        /\ Get(job_repo[j]).errors = <<[edital_url |-> "", is_critical |-> TRUE]>>
        /\ issued = <<>>
        /\ DOMAIN editais = {}
        /\ DOMAIN chroma = {}

(***************************************************************************)
(* Two starts that overlap: execute_<source>_job_now is called while an    *)
(* earlier run is still in flight.  Nothing fails and nobody cancels.      *)
(***************************************************************************)
InitOverlap ==
    /\ job_repo = [j \in JobIds |-> Nothing]
    /\ running_jobs = [j \in {} |-> TRUE]
    /\ task = [j \in JobIds |-> IdleTask]
    /\ canceller = IdleCanceller
    /\ editais = [u \in {} |-> 0]
    /\ chroma = [c \in {} |-> 0]
    /\ issued = <<>>
    /\ accepted = {}
    /\ returned = {}
    /\ cancels = 0
    /\ faults = 0
    /\ launches = 2
    /\ vector_service = BootedService
    /\ ElsewhereIdle

NextOverlap ==
    \/ \E src \in Sources : ExecuteNow(src)
    \/ \E j \in JobIds :
          \/ RunBegin(j) \/ RunFind(j) \/ RunStart(j) \/ RunScrape(j) \/ RunDetail(j)
          \/ RunDownload(j) \/ RunChunk(j) \/ RunFinal(j) \/ RunRecommit(j)
          \/ RunProgress(j) \/ RunComplete(j)

SpecOverlap == InitOverlap /\ [][NextOverlap]_vars

\* C13: at any time at most one job record per job_name is `running`, also
\* when execute_now is invoked twice for the same source.
C13_OneRunningPerSource ==
    \A j, k \in JobIds :
        (/\ IsSome(job_repo[j]) /\ IsSome(job_repo[k])
         /\ Get(job_repo[j]).status = "running"
         /\ Get(job_repo[k]).status = "running"
         /\ Get(job_repo[j]).job_name = Get(job_repo[k]).job_name)
        => j = k


(***************************************************************************)
(* The scheduler: JobSchedulerService.start, shutdown and the function the *)
(* cron trigger calls.                                                     *)
(***************************************************************************)
MaxStarts == 2

\* CronTrigger(hour=1, minute=0)
DailyAtOne == [hour |-> 1, minute |-> 0]

\* scheduler.add_job(..., id=id, replace_existing=True): a schedule with the
\* same id is replaced where it stands, a new id is appended
AddJob(jobs, id, name, trigger) ==
    LET new == [id |-> id, name |-> name, trigger |-> trigger]
    IN  IF \E n \in 1..Len(jobs) : jobs[n].id = id
        THEN [n \in 1..Len(jobs) |-> IF jobs[n].id = id THEN new ELSE jobs[n]]
        ELSE Append(jobs, new)

\* start(): the daily schedule is added, then the scheduler is started
SchedulerStart ==
    /\ scheduler.starts < MaxStarts
    /\ scheduler' = [jobs |-> AddJob(scheduler.jobs, "cnpq_daily_scraping",
                                     "CNPq Daily Scraping", DailyAtOne),
                     running |-> TRUE,
                     starts |-> scheduler.starts + 1]
    /\ UNCHANGED <<job_repo, running_jobs, task, canceller, editais, chroma, issued,
                   accepted, returned, cancels, faults, launches, vector_service,
                   conversation_repo, sends, attempt, listing, response, extraction, call>>

\* shutdown(): the scheduler stops; its memory job store is emptied or kept
SchedulerShutdown ==
    /\ scheduler.running
    /\ \E kept \in BOOLEAN :
          scheduler' = [scheduler EXCEPT !.running = FALSE,
                                         !.jobs = IF kept THEN @ ELSE <<>>]
    /\ UNCHANGED <<job_repo, running_jobs, task, canceller, editais, chroma, issued,
                   accepted, returned, cancels, faults, launches, vector_service,
                   conversation_repo, sends, attempt, listing, response, extraction, call>>

\* 01:00: _execute_cnpq_scraping_job creates the record and runs _execute_job
Fire ==
    /\ scheduler.running
    /\ \E n \in 1..Len(scheduler.jobs) : scheduler.jobs[n].id = "cnpq_daily_scraping"
    /\ launches > 0
    /\ \E j \in JobIds : job_repo[j] = Nothing
    /\ LET j == FreeJobId
       IN  /\ job_repo' = [job_repo EXCEPT
                              ![j] = Some(JobExecutionCreate(j, "cnpq_scraping_scheduled"))]
           /\ task' = [task EXCEPT ![j] = [IdleTask EXCEPT !.pc = "created",
                                                           !.src = "cnpq"]]
    /\ launches' = launches - 1
    /\ UNCHANGED <<running_jobs, canceller, editais, chroma, issued, accepted,
                   returned, cancels, faults, vector_service, elsewhere>>

InitScheduler ==
    /\ job_repo = [j \in JobIds |-> Nothing]
    /\ running_jobs = [j \in {} |-> TRUE]
    /\ task = [j \in JobIds |-> IdleTask]
    /\ canceller = IdleCanceller
    /\ editais = [u \in {} |-> 0]
    /\ chroma = [c \in {} |-> 0]
    /\ issued = <<>>
    /\ accepted = {}
    /\ returned = {}
    /\ cancels = 0
    /\ faults = 0
    /\ launches = 1
    /\ vector_service = BootedService
    /\ ElsewhereIdle

NextScheduler ==
    \/ SchedulerStart
    \/ SchedulerShutdown
    \/ Fire
    \/ \E j \in JobIds :
          \/ RunBegin(j)
          \/ RunFind(j)
          \/ RunStart(j)
          \/ RunScrape(j)
          \/ RunDownload(j)
          \/ RunChunk(j)
          \/ RunFinal(j)
          \/ RunProgress(j)
          \/ RunComplete(j)

SpecScheduler == InitScheduler /\ [][NextScheduler]_vars

\* the schedules of one source
SchedulesOf(src) ==
    {n \in 1..Len(scheduler.jobs) : scheduler.jobs[n].id = src \o "_daily_scraping"}

\* C14: once start() has run, every configured source has exactly one
\* schedule, with identifier {source}_daily_scraping, daily at 01:00; calling
\* start again leaves one schedule per identifier.
C14_OneSchedulePerSource ==
    scheduler.running =>
        \A src \in Sources :
            /\ Cardinality(SchedulesOf(src)) = 1
            /\ \A n \in SchedulesOf(src) : scheduler.jobs[n].trigger = DailyAtOne


(***************************************************************************)
(* A run in which nothing fails and nobody cancels.                        *)
(***************************************************************************)
\* the number of PDFs the listing of the run of t returned
Listed(t) == IF Shape(t.src) = "flat" THEN Len(t.links) ELSE t.total_pdfs

\* the uuid draws of the run of j
DrawsOf(j) == {k \in 1..Len(issued) : issued[k].job_id = j}

\* the vector entries of the editais of the draws in K
RECURSIVE ChunksOfDraws(_)
ChunksOfDraws(K) ==
    IF K = {} THEN 0
    ELSE LET k == CHOOSE x \in K : TRUE
         IN  ChunkCount(PdfTextLen(PdfNumber(issued[k].url))) + ChunksOfDraws(K \ {k})

\* the run of j ended, with no failure injected and no cancel_job call made
EndedUndisturbed(j) ==
    /\ task[j].pc = "done"
    /\ IsSome(task[j].job)
    /\ faults = MaxFaults
    /\ cancels = MaxCancels
    /\ canceller.pc = "idle"

\* C15: a run that is not cancelled and whose n listed PDFs all download and
\* extract ends with the job `completed`, processed = total = n, the vector
\* index grown by the sum of the chunk counts of the PDFs, and n new editais
\* with extraction_status `completed` in the canonical store.
C15_CleanRunTotals ==
    \A j \in JobIds :
        EndedUndisturbed(j) =>
            LET n == Listed(task[j])
                job == Get(job_repo[j])
            IN  /\ job.status = "completed"
                /\ job.processed_editais = n
                /\ job.total_editais = n
                /\ Cardinality(DrawsOf(j)) = n
                /\ \A k \in DrawsOf(j) : EditalWritten(issued[k].uuid, issued[k].url)
                /\ Cardinality(DOMAIN editais) = n
                /\ Cardinality(DOMAIN chroma) = ChunksOfDraws(DrawsOf(j))

\* C15 happens: a run over two PDFs, of two chunks and of one chunk
C15_Witness ==
    \E j \in JobIds :
        /\ EndedUndisturbed(j)
        /\ Listed(task[j]) = 2
        /\ Get(job_repo[j]).status = "completed"
        /\ Get(job_repo[j]).processed_editais = 2
        /\ Cardinality(DOMAIN editais) = 2
        /\ Cardinality(DOMAIN chroma) = 3


(***************************************************************************)
(* download_and_extract_pdf attempt by attempt (the adapters of FAPESQ,    *)
(* Paraiba, CONFAP, CAPES and FINEP have the same loop).                   *)
(***************************************************************************)
DOWNLOAD_MAX_RETRIES == 3
MaxFailedAttempts == 3

\* how one attempt ends: the text is extracted; httpx.ReadTimeout or
\* ConnectTimeout; httpx.RemoteProtocolError; anything else (an HTTP error
\* status, a body that is not a PDF, a PDF that cannot be read)
AttemptOutcomes == {"text", "timeout", "protocol", "error"}

\* the adapters whose download_and_extract_pdf is modelled
DownloadSources == Sources \ {"cnpq"}

\* a loop that gives up after any failed attempt
GivesUp(attempt_no, outcome) == TRUE

\* the call returns after this attempt: always, unless the attempt timed out
\* or was disconnected and is not the last one
Returns(attempt_no, outcome) ==
    \/ outcome \in {"text", "error"}
    \/ ~(attempt_no < DOWNLOAD_MAX_RETRIES - 1)

\* one attempt of the download of the run of j ends; attempt_no is the loop
\* variable (0 for the first attempt)
DownloadAttempt(j) ==
    /\ task[j].pc = "download"
    /\ \E outcome \in AttemptOutcomes :
          LET a == attempt[j]
              attempt_no == Len(a.outcomes)
              outcomes == Append(a.outcomes, outcome)
              failed == IF outcome = "text" THEN a.failed ELSE a.failed + 1
          IN  /\ failed <= MaxFailedAttempts
              /\ IF Returns(attempt_no, outcome)
                 THEN /\ DownloadReturned(j, outcome = "text")
                      /\ attempt' = [attempt EXCEPT ![j] =
                            [outcomes |-> <<>>,
                             log |-> Append(a.log, [url |-> PdfUrlOf(task[j]),
                                                    outcomes |-> outcomes,
                                                    texto |-> outcome = "text"]),
                             failed |-> failed]]
                 ELSE /\ attempt' = [attempt EXCEPT ![j].outcomes = outcomes,
                                                    ![j].failed = failed]
                      /\ UNCHANGED <<job_repo, task, issued>>
    /\ UNCHANGED <<running_jobs, canceller, editais, chroma, accepted, returned,
                   cancels, faults, launches, vector_service, scheduler,
                   conversation_repo, sends, listing, response, extraction, call>>

InitDownload ==
    /\ job_repo = [j \in JobIds |-> Nothing]
    /\ running_jobs = [j \in {} |-> TRUE]
    /\ task = [j \in JobIds |-> IdleTask]
    /\ canceller = IdleCanceller
    /\ editais = [u \in {} |-> 0]
    /\ chroma = [c \in {} |-> 0]
    /\ issued = <<>>
    /\ accepted = {}
    /\ returned = {}
    /\ cancels = 0
    /\ faults = 0
    /\ launches = 1
    /\ vector_service = BootedService
    /\ ElsewhereIdle

NextDownload ==
    \/ \E src \in DownloadSources : ExecuteNow(src)
    \/ \E j \in JobIds :
          \/ RunBegin(j)
          \/ RunFind(j)
          \/ RunStart(j)
          \/ RunScrape(j)
          \/ RunDetail(j)
          \/ DownloadAttempt(j)
          \/ RunChunk(j)
          \/ RunFinal(j)
          \/ RunRecommit(j)
          \/ RunProgress(j)
          \/ RunComplete(j)

SpecDownload == InitDownload /\ [][NextDownload]_vars

\* the downloads of the run of j that returned
Downloads(j) == {attempt[j].log[n] : n \in 1..Len(attempt[j].log)}

\* the run of j recorded an error for the PDF at url
ErrorRecorded(j, url) ==
    \E n \in 1..Len(Get(job_repo[j]).errors) : Get(job_repo[j]).errors[n].edital_url = url

\* a download that timed out twice and succeeded on its third attempt returns
\* the text; the run records no error for the PDF and, once it has ended,
\* holds one edital of the PDF with all its chunks
TimeoutsThenText ==
    \A j \in JobIds : \A d \in Downloads(j) :
        (/\ Len(d.outcomes) = 3
         /\ d.outcomes[1] = "timeout" /\ d.outcomes[2] = "timeout"
         /\ d.outcomes[3] = "text") =>
            /\ d.texto
            /\ ~ErrorRecorded(j, d.url)
            /\ task[j].pc = "done" =>
                  /\ Cardinality({k \in DrawsOf(j) : issued[k].url = d.url}) = 1
                  /\ \A k \in DrawsOf(j) :
                        issued[k].url = d.url => EditalWritten(issued[k].uuid, d.url)

\* C16 as stated: two timeouts then success give the text, no error and a
\* single edital with all its chunks, and a download is reported as failed
\* only after DOWNLOAD_MAX_RETRIES attempts have failed.
C16_FailedOnlyAfterAllAttempts ==
    /\ TimeoutsThenText
    /\ \A j \in JobIds : \A d \in Downloads(j) :
          ~d.texto => /\ Len(d.outcomes) = DOWNLOAD_MAX_RETRIES
                      /\ \A n \in 1..Len(d.outcomes) : d.outcomes[n] # "text"

\* what the loop does guarantee: two timeouts then success give the text, no
\* error and a single edital with all its chunks; a download whose attempts
\* time out or are disconnected is reported as failed only after
\* DOWNLOAD_MAX_RETRIES failed attempts; an attempt that fails in any other
\* way is not retried and the download is reported as failed at once.
C16_RetriesOnTimeoutOnly ==
    /\ TimeoutsThenText
    /\ \A j \in JobIds : \A d \in Downloads(j) :
          LET last == d.outcomes[Len(d.outcomes)]
          IN  /\ d.texto <=> last = "text"
              /\ ~d.texto <=> ErrorRecorded(j, d.url)
              /\ \A n \in 1..(Len(d.outcomes) - 1) :
                    d.outcomes[n] \in {"timeout", "protocol"}
              /\ (~d.texto /\ last \in {"timeout", "protocol"}) =>
                    Len(d.outcomes) = DOWNLOAD_MAX_RETRIES
              /\ Len(d.outcomes) <= DOWNLOAD_MAX_RETRIES

\* a run ended whose download timed out twice and then returned the text, and
\* the edital of that PDF is complete
C16_Witness ==
    \E j \in JobIds : \E d \in Downloads(j) :
        /\ d.outcomes = <<"timeout", "timeout", "text">>
        /\ task[j].pc = "done"
        /\ Get(job_repo[j]).status = "completed"
        /\ Get(job_repo[j]).errors = <<>>
        /\ \E k \in DrawsOf(j) :
              issued[k].url = d.url /\ EditalWritten(issued[k].uuid, d.url)


(***************************************************************************)
(* The date filter of the listings (scrape_fapesq_editais,                 *)
(* scrape_paraiba_gov_editais, scrape_confap_editais,                      *)
(* scrape_capes_chamadas, scrape_finep_chamadas).  A date is a day number, *)
(* for CONFAP and CAPES a year number; Nothing is a row in which no date   *)
(* was found.                                                              *)
(***************************************************************************)
MaxDate == 3

Dates == 1..MaxDate

\* the adapters whose listing is modelled
ListingSources == Sources \ {"cnpq"}

\* whether the row is appended to the list the adapter returns
Admits(src, filter_by_date, date, today) ==
    CASE src = "fapesq" ->
            IF filter_by_date
            THEN IsSome(date) /\ Get(date) >= today
            ELSE TRUE
      [] src = "capes" ->
            IF ~IsSome(date) THEN FALSE
            ELSE ~(filter_by_date /\ Get(date) < today)
      [] OTHER ->
            IF filter_by_date
            THEN IF IsSome(date) /\ Get(date) >= today THEN TRUE
                 ELSE ~IsSome(date)
            ELSE TRUE

\* a listing page with one row, on a given day
InitListing ==
    /\ job_repo = [j \in JobIds |-> Nothing]
    /\ running_jobs = [j \in {} |-> TRUE]
    /\ task = [j \in JobIds |-> IdleTask]
    /\ canceller = IdleCanceller
    /\ editais = [u \in {} |-> 0]
    /\ chroma = [c \in {} |-> 0]
    /\ issued = <<>>
    /\ accepted = {}
    /\ returned = {}
    /\ cancels = 0
    /\ faults = 0
    /\ launches = 0
    /\ vector_service = BootedService
    /\ scheduler = IdleScheduler
    /\ conversation_repo = [c \in ConversationIds |-> Nothing]
    /\ sends = [s \in SendIds |-> IdleSend]
    /\ attempt = [j \in JobIds |-> IdleDownload]
    /\ response = Nothing
    /\ extraction = Nothing
    /\ call = Nothing
    /\ \E src \in ListingSources, filter_by_date \in BOOLEAN, today \in Dates,
          date \in {Nothing} \cup {Some(d) : d \in Dates} :
          listing = Some([src |-> src, filter_by_date |-> filter_by_date,
                          date |-> date, today |-> today, admitted |-> Nothing])

\* the adapter goes over the row
ScrapeRow ==
    /\ IsSome(listing)
    /\ Get(listing).admitted = Nothing
    /\ LET l == Get(listing)
       IN  listing' = Some([l EXCEPT !.admitted =
                               Some(Admits(l.src, l.filter_by_date, l.date, l.today))])
    /\ UNCHANGED <<job_repo, running_jobs, task, canceller, editais, chroma, issued,
                   accepted, returned, cancels, faults, launches, vector_service,
                   scheduler, conversation_repo, sends, attempt, response, extraction, call>>

NextListing == ScrapeRow

SpecListing == InitListing /\ [][NextListing]_vars

\* C17: for every adapter, when filter_by_date is true a listed call is
\* admitted if and only if its extracted date (or year) is >= today (or the
\* current year) or no date could be extracted; a row with no extractable
\* date is always included.
C17_AdmitsFutureOrUndated ==
    (IsSome(listing) /\ IsSome(Get(listing).admitted)) =>
        LET l == Get(listing)
        IN  l.filter_by_date =>
                /\ Get(l.admitted) <=> (~IsSome(l.date) \/ Get(l.date) >= l.today)
                /\ ~IsSome(l.date) => Get(l.admitted)


(***************************************************************************)
(* The chat: ChatService.create_conversation and send_message behind       *)
(* POST /chat/conversations/{id}/messages.  Distances are in tenths.       *)
(***************************************************************************)
MaxTopK == 2
MaxIndexed == 4
DISTANCE_THRESHOLD == 15

UserMessages == {"prazo"}

\* _generate_response when the completion call raises
FALLBACK_RESPONSE ==
    "Desculpe, ocorreu um erro ao processar sua pergunta. Por favor, tente novamente."

\* what the LLM answers (temperature aside, some text that is not the fallback)
Answer(user_message, context) == "resposta: " \o user_message \o " / " \o context

\* the vector index the chat searches: edital e1 with MaxIndexed chunks,
\* edital e2 with one chunk, in the order they were written
Indexed ==
    [n \in 1..(MaxIndexed + 1) |->
        IF n <= MaxIndexed
        THEN [edital_uuid |-> "e1", chunk_index |-> n, total_chunks |-> MaxIndexed]
        ELSE [edital_uuid |-> "e2", chunk_index |-> 1, total_chunks |-> 1]]

RECURSIVE IndexOf(_)
IndexOf(n) ==
    IF n = 0 THEN [c \in {} |-> 0]
    ELSE AddChunk(IndexOf(n - 1), Indexed[n].edital_uuid,
                  "Edital " \o Indexed[n].edital_uuid, Indexed[n].chunk_index,
                  Indexed[n].total_chunks, "pdf0")

\* the ids collection.query may return under the `where` filter, in the
\* order they were written
Matching(index, filter_metadata) ==
    LET ids == [n \in 1..Len(Indexed) |->
                   ChunkId(Indexed[n].edital_uuid, Indexed[n].chunk_index)]
        Match(c) == /\ c \in DOMAIN index
                    /\ filter_metadata = None
                        \/ Str(index[c].edital_uuid) = filter_metadata
    IN  SelectSeq(ids, Match)

Min(a, b) == IF a < b THEN a ELSE b

\* collection.query as formatted by search_similar: n_results entries at
\* most, nearest first; the first `below` are nearer than the threshold, the
\* next `at` (none or one) are at the threshold, the others are farther; r
\* says which entries are the nearest
QueryResult(index, n_results, filter_metadata, r, below, at) ==
    LET match == Matching(index, filter_metadata)
        m == Min(n_results, Len(match))
    IN  [i \in 1..m |->
            [id |-> match[((i - 1 + r) % Len(match)) + 1],
             distance |-> IF i <= below THEN DISTANCE_THRESHOLD - 10
                          ELSE IF i <= below + at THEN DISTANCE_THRESHOLD
                          ELSE DISTANCE_THRESHOLD + 5]]

\* a filter that lets every chunk through
KeepAll(relevant_chunks) == relevant_chunks

\* the loop over relevant_chunks: distance < self.distance_threshold
FilterChunks(relevant_chunks) ==
    LET Near(chunk) == chunk.distance < DISTANCE_THRESHOLD
    IN  SelectSeq(relevant_chunks, Near)

\* filtered_chunks[:self.top_k_chunks]
TopK(filtered_chunks, top_k_chunks) ==
    SubSeq(filtered_chunks, 1, Min(top_k_chunks, Len(filtered_chunks)))

\* _build_context, by what the prompt is told
BuildContext(chunks) ==
    IF chunks = <<>> THEN "Nenhum documento relevante encontrado"
    ELSE "DOCUMENTOS RELEVANTES"

ChatMessage(role, content, sources) ==
    [role |-> role, content |-> content, sources |-> sources]

\* Conversation.generate_title: the first user message, cut at 50 characters
\* (no message of UserMessages is longer)
GenerateTitle(messages) ==
    LET user == SelectSeq(messages, LAMBDA msg : msg.role = "user")
    IN  IF user = <<>> THEN "Nova Conversa" ELSE user[1].content

\* a read that makes up the conversation it does not find
GetOrCreate(repo, conversation_id) ==
    IF IsSome(repo[conversation_id]) THEN repo[conversation_id]
    ELSE Some([id |-> conversation_id, user_id |-> "u1", title |-> "Nova Conversa",
               messages |-> <<>>, edital_uuid |-> None])

\* conversation_repo.get_by_id: the document with that _id, or None
GetById(repo, conversation_id) == repo[conversation_id]

\* conversation_repo.update: $set on the document with that _id, if any
ConversationUpdate(repo, conversation) ==
    IF IsSome(repo[conversation.id])
    THEN [repo EXCEPT ![conversation.id] = Some(conversation)]
    ELSE repo

UnchangedByChat ==
    UNCHANGED <<job_repo, running_jobs, task, canceller, editais, chroma, issued,
                accepted, returned, cancels, launches, vector_service, scheduler,
                attempt, listing, response, extraction, call>>

\* create_conversation: a new document with a new id
CreateConversation(user_id, edital_uuid) ==
    /\ \E c \in ConversationIds : conversation_repo[c] = Nothing
    /\ LET c == IF conversation_repo["c1"] = Nothing THEN "c1" ELSE "c2"
       IN  conversation_repo' = [conversation_repo EXCEPT ![c] =
              Some([id |-> c, user_id |-> user_id, title |-> "Nova Conversa",
                    messages |-> <<>>, edital_uuid |-> edital_uuid])]
    /\ UNCHANGED <<sends, faults>>
    /\ UnchangedByChat

\* the response leaves: the locals of the call are gone
Respond(send, result) ==
    [send EXCEPT !.pc = "returned", !.conversation = Nothing,
                 !.relevant_chunks = <<>>, !.index_ids = {}, !.sources = <<>>,
                 !.assistant_response = "", !.result = Some(result)]

\* the request of current_user arrives at a service configured with
\* top_k_chunks: send_message runs to `await get_by_id`
SendMessage(s, current_user, conversation_id, user_message, edital_uuid, top_k_chunks) ==
    /\ sends[s].pc = "none"
    /\ sends' = [sends EXCEPT ![s] =
          [pc |-> "load", op |-> "send", current_user |-> current_user,
           conversation_id |-> conversation_id,
           user_message |-> user_message, edital_uuid |-> edital_uuid,
           top_k_chunks |-> top_k_chunks,
           conversation |-> Nothing, searched |-> FALSE, search_failed |-> FALSE,
           relevant_chunks |-> <<>>, index_ids |-> {}, sources |-> <<>>,
           generated |-> FALSE, assistant_response |-> "", result |-> Nothing]]
    /\ UNCHANGED <<conversation_repo, faults>>
    /\ UnchangedByChat

\* get_by_id returns the conversation, or None (not found, or the read
\* failed); None raises ValueError, which the endpoint answers with 404;
\* otherwise the search is started
ChatLoad(s) ==
    /\ sends[s].pc = "load"
    /\ \/ /\ IsSome(GetById(conversation_repo, sends[s].conversation_id))
          /\ sends' = [sends EXCEPT
                ![s].conversation = GetById(conversation_repo, sends[s].conversation_id),
                ![s].pc = "search"]
          /\ UNCHANGED faults
       \/ /\ \/ /\ GetById(conversation_repo, sends[s].conversation_id) = Nothing
                /\ UNCHANGED faults
             \/ /\ faults > 0
                /\ faults' = faults - 1
          /\ sends' = [sends EXCEPT ![s] = Respond(sends[s], [status |-> 404])]
    /\ UNCHANGED conversation_repo
    /\ UnchangedByChat

\* send_message from the return of search_similar to the completion call
Searched(send, relevant_chunks) ==
    LET filtered_chunks == TopK(FilterChunks(relevant_chunks), send.top_k_chunks)
        sources == [i \in 1..Len(filtered_chunks) |-> filtered_chunks[i].id]
        conversation == Get(send.conversation)
    IN  [send EXCEPT
            !.searched = TRUE,
            !.relevant_chunks = relevant_chunks,
            !.sources = sources,
            !.conversation = Some([conversation EXCEPT !.messages =
                Append(@, ChatMessage("user", send.user_message, <<>>))]),
            !.pc = "generate"]

\* search_similar returns what the collection answers, or [] when the query
\* raises
ChatSearch(s) ==
    /\ sends[s].pc = "search"
    /\ LET send == [sends[s] EXCEPT !.index_ids = DOMAIN chroma]
           n_results == send.top_k_chunks * 4
           m == Min(n_results, Len(Matching(chroma, send.edital_uuid)))
       IN  \/ /\ \E r \in 0..(IF m = 0 THEN 0 ELSE Len(Matching(chroma, send.edital_uuid)) - 1),
                    below \in 0..m :
                    \E at \in 0..Min(1, m - below) :
                       sends' = [sends EXCEPT ![s] =
                          Searched(send, QueryResult(chroma, n_results,
                                                     send.edital_uuid, r, below, at))]
              /\ UNCHANGED faults
           \/ /\ faults > 0
              /\ faults' = faults - 1
              /\ sends' = [sends EXCEPT ![s] =
                    Searched([send EXCEPT !.search_failed = TRUE], <<>>)]
    /\ UNCHANGED conversation_repo
    /\ UnchangedByChat

\* _generate_response returns the answer, or the fallback when the
\* completion call raises; the assistant message is added, the title set,
\* the update started
ChatGenerate(s) ==
    /\ sends[s].pc = "generate"
    /\ LET send == sends[s]
           context == BuildContext(send.sources)
           Added(assistant_response) ==
               LET messages == Append(Get(send.conversation).messages,
                                      ChatMessage("assistant", assistant_response,
                                                  send.sources))
                   conversation == [Get(send.conversation) EXCEPT !.messages = messages]
               IN  [send EXCEPT
                       !.assistant_response = assistant_response,
                       !.conversation = Some(
                           IF Len(messages) = 2
                           THEN [conversation EXCEPT !.title = GenerateTitle(messages)]
                           ELSE conversation),
                       !.pc = "save"]
       IN  \/ /\ sends' = [sends EXCEPT ![s] =
                    [Added(Answer(send.user_message, context)) EXCEPT !.generated = TRUE]]
              /\ UNCHANGED faults
           \/ /\ faults > 0
              /\ faults' = faults - 1
              /\ sends' = [sends EXCEPT ![s] = Added(FALLBACK_RESPONSE)]
    /\ UNCHANGED conversation_repo
    /\ UnchangedByChat

\* the update is applied and the response returned; if the update raises the
\* endpoint answers 500
ChatSave(s) ==
    /\ sends[s].pc = "save"
    /\ LET send == sends[s]
       IN  \/ /\ conversation_repo' =
                    ConversationUpdate(conversation_repo, Get(send.conversation))
              /\ sends' = [sends EXCEPT ![s] =
                    Respond(send, [status |-> 200,
                                   conversation_id |-> send.conversation_id,
                                   message |-> send.assistant_response,
                                   sources |-> send.sources,
                                   chunks_used |-> Len(send.sources)])]
              /\ UNCHANGED faults
           \/ /\ faults > 0
              /\ faults' = faults - 1
              /\ sends' = [sends EXCEPT ![s] = Respond(send, [status |-> 500])]
              /\ UNCHANGED conversation_repo
    /\ UnchangedByChat

\* the index is filled, nobody has talked yet
InitChat ==
    /\ job_repo = [j \in JobIds |-> Nothing]
    /\ running_jobs = [j \in {} |-> TRUE]
    /\ task = [j \in JobIds |-> IdleTask]
    /\ canceller = IdleCanceller
    /\ editais = [u \in {} |-> 0]
    /\ chroma = IndexOf(Len(Indexed))
    /\ issued = <<>>
    /\ accepted = {}
    /\ returned = {}
    /\ cancels = 0
    /\ faults = MaxFaults
    /\ launches = 0
    /\ vector_service = BootedService
    /\ ElsewhereIdle

\* no request is being served
NoSendInFlight == \A s \in SendIds : sends[s].pc \in {"none", "returned"}

\* one user, whose clients send one message at a time
NextChat ==
    \/ CreateConversation("u1", None)
    \/ \E s \in SendIds, c \in ConversationIds, user_message \in UserMessages,
          edital_uuid \in {None, Str("e1")}, top_k_chunks \in 1..MaxTopK :
          NoSendInFlight /\ SendMessage(s, "u1", c, user_message, edital_uuid, top_k_chunks)
    \/ \E s \in SendIds :
          \/ ChatLoad(s)
          \/ ChatSearch(s)
          \/ ChatGenerate(s)
          \/ ChatSave(s)

SpecChat == InitChat /\ [][NextChat]_vars


(***************************************************************************)
(* Properties of send_message.                                             *)
(***************************************************************************)
\* the positions of the retrieved chunks that are nearer than the threshold
NearPositions(chunks) ==
    {i \in 1..Len(chunks) : chunks[i].distance < DISTANCE_THRESHOLD}

\* src lists the ids of the first k chunks at near positions, in the order
\* of retrieval
IsFirstNear(src, chunks, k) ==
    /\ Len(src) = Min(k, Cardinality(NearPositions(chunks)))
    /\ \A n \in 1..Len(src) :
          \E p \in NearPositions(chunks) :
              /\ Cardinality({q \in NearPositions(chunks) : q < p}) = n - 1
              /\ src[n] = chunks[p].id

\* the last two messages of the stored conversation c
LastExchange(c) ==
    LET messages == Get(conversation_repo[c]).messages
    IN  SubSeq(messages, Len(messages) - 1, Len(messages))

\* C18: for every successful send_message, the sources of the assistant turn
\* and the returned sources (with chunks_used their count, at most k) are
\* exactly the ids, in retrieval order, of the first k of the k*4 retrieved
\* chunks whose distance is below the threshold, and every source id is the
\* id of a chunk that was in the vector index when the message was sent.
C18_SourcesAreFirstNearChunks ==
    /\ [](\A s \in SendIds :
            sends[s].pc \in {"generate", "save"} =>
                /\ Len(sends[s].relevant_chunks) <= sends[s].top_k_chunks * 4
                /\ IsFirstNear(sends[s].sources, sends[s].relevant_chunks,
                               sends[s].top_k_chunks)
                /\ \A n \in 1..Len(sends[s].sources) :
                      sends[s].sources[n] \in sends[s].index_ids)
    /\ [][\A s \in SendIds :
            (/\ sends[s].pc = "save"
             /\ sends'[s].pc = "returned"
             /\ Get(sends'[s].result).status = 200) =>
                LET result == Get(sends'[s].result)
                    c == sends[s].conversation_id
                IN  /\ result.sources = sends[s].sources
                    /\ result.chunks_used = Len(result.sources)
                    /\ result.chunks_used <= sends[s].top_k_chunks
                    /\ Len(Get(conversation_repo'[c]).messages) =
                          Len(Get(conversation_repo[c]).messages) + 2
                    /\ LET messages == Get(conversation_repo'[c]).messages
                       IN  /\ messages[Len(messages) - 1] =
                                 ChatMessage("user", sends[s].user_message, <<>>)
                           /\ messages[Len(messages)] =
                                 ChatMessage("assistant", result.message, result.sources)]_vars

\* C18 happens: with k = 2, a message was answered from the second and third
\* chunk of e1, and the stored assistant turn cites them in that order
C18_Witness ==
    \E s \in SendIds :
        /\ sends[s].pc = "returned"
        /\ sends[s].top_k_chunks = 2
        /\ Get(sends[s].result).status = 200
        /\ Get(sends[s].result).sources = <<ChunkId("e1", 2), ChunkId("e1", 3)>>
        /\ Get(sends[s].result).chunks_used = 2
        /\ LET messages == Get(conversation_repo[sends[s].conversation_id]).messages
           IN  /\ Len(messages) = 2
               /\ messages[2].role = "assistant"
               /\ messages[2].sources = <<ChunkId("e1", 2), ChunkId("e1", 3)>>

\* C19: send_message on a conversation id that does not exist fails with
\* NotFound (HTTP 404) before any retrieval or generation, persists no
\* message and creates no conversation.
C19_UnknownConversationNotFound ==
    [][\A s \in SendIds :
          (/\ sends[s].pc = "load"
           /\ conversation_repo[sends[s].conversation_id] = Nothing
           /\ sends'[s] # sends[s]) =>
              /\ sends'[s].pc = "returned"
              /\ Get(sends'[s].result) = [status |-> 404]
              /\ ~sends'[s].searched
              /\ ~sends'[s].generated
              /\ conversation_repo' = conversation_repo]_vars

\* C19 happens: a message sent to c2, which nobody created, was answered 404
\* with no search and no completion call, and c2 still does not exist
C19_Witness ==
    \E s \in SendIds :
        /\ sends[s].pc = "returned"
        /\ sends[s].conversation_id = "c2"
        /\ conversation_repo["c2"] = Nothing
        /\ Get(sends[s].result).status = 404
        /\ ~sends[s].searched
        /\ ~sends[s].generated
        /\ faults = MaxFaults

\* C20: when the vector-store retrieval fails during send_message, the call
\* still returns successfully and the persisted assistant turn is the
\* fallback error message, not a generated answer.
C20_RetrievalFailureFallsBack ==
    \A s \in SendIds :
        (sends[s].pc = "returned" /\ sends[s].search_failed) =>
            /\ Get(sends[s].result).status = 200
            /\ Get(sends[s].result).message = FALLBACK_RESPONSE
            /\ LastExchange(sends[s].conversation_id)[2].content = FALLBACK_RESPONSE


(***************************************************************************)
(* Two users and the endpoints on one conversation: GET and DELETE         *)
(* /chat/conversations/{id} and POST /chat/conversations/{id}/messages,    *)
(* served concurrently.                                                    *)
(***************************************************************************)
Users == {"u1", "u2"}

\* GET or DELETE /chat/conversations/{id} arrives: the endpoint runs to
\* `await chat_service.get_conversation`
ConversationRequest(s, op, current_user, conversation_id) ==
    /\ sends[s].pc = "none"
    /\ sends' = [sends EXCEPT ![s] =
          [pc |-> "check", op |-> op, current_user |-> current_user,
           conversation_id |-> conversation_id, result |-> Nothing]]
    /\ UNCHANGED <<conversation_repo, faults>>
    /\ UnchangedByChat

\* get_conversation returned: 404 if there is none, 403 if it belongs to
\* somebody else; the GET answers with the conversation, the DELETE goes on
\* to `await chat_service.delete_conversation`
ConversationCheck(s) ==
    /\ sends[s].pc = "check"
    /\ LET conversation == GetById(conversation_repo, sends[s].conversation_id)
           Answer_(result) == [sends EXCEPT ![s].pc = "returned",
                                            ![s].result = Some(result)]
       IN  sends' =
              IF conversation = Nothing THEN Answer_([status |-> 404])
              ELSE IF Get(conversation).user_id # sends[s].current_user
              THEN Answer_([status |-> 403])
              ELSE IF sends[s].op = "get"
              THEN Answer_([status |-> 200, conversation |-> Get(conversation)])
              ELSE [sends EXCEPT ![s].pc = "delete"]
    /\ UNCHANGED <<conversation_repo, faults>>
    /\ UnchangedByChat

\* delete_one returned: 200 if a document was deleted, 500 otherwise
DeleteConversation(s) ==
    /\ sends[s].pc = "delete"
    /\ LET c == sends[s].conversation_id
       IN  /\ conversation_repo' = [conversation_repo EXCEPT ![c] = Nothing]
           /\ sends' = [sends EXCEPT
                 ![s].pc = "returned",
                 ![s].result = Some([status |-> IF IsSome(conversation_repo[c])
                                                THEN 200 ELSE 500])]
    /\ UNCHANGED faults
    /\ UnchangedByChat

\* an index of one chunk, nobody has talked yet, nothing fails
InitAccess ==
    /\ job_repo = [j \in JobIds |-> Nothing]
    /\ running_jobs = [j \in {} |-> TRUE]
    /\ task = [j \in JobIds |-> IdleTask]
    /\ canceller = IdleCanceller
    /\ editais = [u \in {} |-> 0]
    /\ chroma = IndexOf(1)
    /\ issued = <<>>
    /\ accepted = {}
    /\ returned = {}
    /\ cancels = 0
    /\ faults = 0
    /\ launches = 0
    /\ vector_service = BootedService
    /\ ElsewhereIdle

\* the conversations are created before the first request on one arrives
NextAccess ==
    \/ \E user_id \in Users :
          /\ \A s \in SendIds : sends[s].pc = "none"
          /\ CreateConversation(user_id, None)
    \/ \E s \in SendIds, current_user \in Users, c \in ConversationIds,
          user_message \in UserMessages :
          SendMessage(s, current_user, c, user_message, None, 1)
    \/ \E s \in SendIds, op \in {"get", "delete"}, current_user \in Users,
          c \in ConversationIds :
          ConversationRequest(s, op, current_user, c)
    \/ \E s \in SendIds :
          \/ ConversationCheck(s)
          \/ DeleteConversation(s)
          \/ ChatLoad(s)
          \/ ChatSearch(s)
          \/ ChatGenerate(s)
          \/ ChatSave(s)

SpecAccess == InitAccess /\ [][NextAccess]_vars

\* the request s is on a conversation that exists and belongs to another user
Foreign(s) ==
    /\ sends[s].pc \notin {"none", "returned"}
    /\ IsSome(conversation_repo[sends[s].conversation_id])
    /\ Get(conversation_repo[sends[s].conversation_id]).user_id # sends[s].current_user

\* C21: a read, a delete or a send_message on a conversation owned by
\* another user is answered 403 and leaves the conversation unchanged; no
\* user appends messages to a conversation they do not own.
C21_OnlyOwnerTouchesConversation ==
    [][\A s \in SendIds :
          (Foreign(s) /\ sends'[s] # sends[s]) =>
              /\ conversation_repo' = conversation_repo
              /\ sends'[s].pc = "returned"
              /\ Get(sends'[s].result).status = 403]_vars


(***************************************************************************)
(* download_and_extract_pdf: what each adapter takes for a PDF.            *)
(* A string is the sequence of its pieces, so that `in`, endswith, lower   *)
(* and the slice [:4] are computed on it; a body is the sequence of its    *)
(* first bytes.                                                            *)
(***************************************************************************)

\* the Content-Type headers a server may send ('' when it sends none)
ContentTypes ==
    { <<>>, <<"application/pdf">>, <<"application/pdf", ";charset=binary">>,
      <<"text/html">>, <<"application/octet-stream">> }

\* the URLs of the documents
Urls ==
    { <<"https://host/", "edital", ".pdf">>,
      <<"https://host/", "EDITAL", ".PDF">>,
      <<"https://host/", "edital", ".pdf", "?v=2">>,
      <<"https://host/", "edital", "-pdf", "/view">>,
      <<"https://host/", "download", "/7">>,
      <<"https://host/", "arquivo", "/7">> }

\* the bodies: a PDF document, an HTML page, a body cut short, no body
Bodies ==
    { <<"%", "P", "D", "F", "-">>, <<"<", "h", "t", "m", "l">>,
      <<"%", "P", "D">>, <<>> }

\* str.lower() on one piece
LowerPiece(p) ==
    CASE p = "EDITAL" -> "edital"
      [] p = ".PDF" -> ".pdf"
      [] OTHER -> p

\* str.lower()
Lower(str) == [k \in 1..Len(str) |-> LowerPiece(str[k])]

\* piece in str
Contains(str, piece) == \E k \in 1..Len(str) : str[k] = piece

\* str.endswith(piece)
EndsWith(str, piece) == Len(str) > 0 /\ str[Len(str)] = piece

\* response.content[:4]
Head4(content) == SubSeq(content, 1, Min(4, Len(content)))

\* is_pdf_content
IsPdfContent(content_type) == Contains(content_type, "application/pdf")

\* is_pdf_signature
IsPdfSignature(content) == Head4(content) = <<"%", "P", "D", "F">>

\* is_pdf_url, the pattern of each adapter that has one
IsPdfUrl(src, url) ==
    CASE src = "confap" -> Contains(Lower(url), "download") \/ EndsWith(Lower(url), ".pdf")
      [] src = "capes" -> Contains(Lower(url), "-pdf") \/ EndsWith(Lower(url), ".pdf")
      [] src = "finep" -> Contains(Lower(url), ".pdf")
      [] src = "paraiba_gov" -> EndsWith(Lower(url), ".pdf")
      [] OTHER -> FALSE

\* the test each adapter makes before it hands the body to pdfplumber
TreatedAsPdf(src, url, content_type, content) ==
    CASE src = "fapesq" -> IsPdfContent(content_type)
      [] src = "paraiba_gov" -> IsPdfContent(content_type) \/ IsPdfUrl(src, url)
      [] OTHER -> \/ IsPdfContent(content_type)
                  \/ IsPdfUrl(src, url)
                  \/ IsPdfSignature(content)

\* _extract_pdf_text_sync: pdfplumber opens a PDF document and raises on
\* anything else, which the adapter answers with None
ExtractPdfText(content) ==
    IF IsPdfSignature(content) THEN Str("texto") ELSE None

\* a 200 response to the GET of one adapter
InitDetect ==
    /\ job_repo = [j \in JobIds |-> Nothing]
    /\ running_jobs = <<>>
    /\ task = [j \in JobIds |-> IdleTask]
    /\ canceller = Nothing
    /\ editais = <<>>
    /\ chroma = <<>>
    /\ issued = <<>>
    /\ accepted = {}
    /\ returned = {}
    /\ cancels = 0
    /\ faults = 0
    /\ launches = 0
    /\ vector_service = BootedService
    /\ scheduler = IdleScheduler
    /\ conversation_repo = [c \in ConversationIds |-> Nothing]
    /\ sends = [s \in SendIds |-> IdleSend]
    /\ attempt = [j \in JobIds |-> IdleDownload]
    /\ listing = Nothing
    /\ extraction = Nothing
    /\ call = Nothing
    /\ \E src \in DownloadSources, url \in Urls, content_type \in ContentTypes,
          content \in Bodies :
          response = Some([src |-> src, url |-> url, content_type |-> content_type,
                           content |-> content, pc |-> "received",
                           treated |-> Nothing, texto |-> Nothing])

UnchangedByDetect ==
    UNCHANGED <<job_repo, running_jobs, task, canceller, editais, chroma, issued,
                accepted, returned, cancels, faults, launches, vector_service,
                scheduler, conversation_repo, sends, attempt, listing, extraction, call>>

\* the adapter tests the response: not a PDF returns None
DetectPdf ==
    /\ IsSome(response)
    /\ Get(response).pc = "received"
    /\ LET r == Get(response)
           treated == TreatedAsPdf(r.src, r.url, r.content_type, r.content)
       IN  response' = Some([r EXCEPT !.treated = Some(treated),
                                      !.pc = IF treated THEN "extract" ELSE "returned",
                                      !.texto = IF treated THEN Nothing ELSE Some(None)])
    /\ UnchangedByDetect

\* run_in_executor(_extract_pdf_text_sync, response.content) and the return
ExtractText ==
    /\ IsSome(response)
    /\ Get(response).pc = "extract"
    /\ LET r == Get(response)
       IN  response' = Some([r EXCEPT !.texto = Some(ExtractPdfText(r.content)),
                                      !.pc = "returned"])
    /\ UnchangedByDetect

NextDetect == DetectPdf \/ ExtractText

SpecDetect == InitDetect /\ [][NextDetect]_vars

\* C22: every adapter takes a response for a PDF when its content-type holds
\* application/pdf, or its URL has the adapter's pattern, or its body starts
\* with %PDF; a response with a wrong content-type and a %PDF body is
\* accepted and its text extracted.
C22_SignatureIsEnough ==
    (IsSome(response) /\ Get(response).pc = "returned") =>
        LET r == Get(response)
        IN  /\ Get(r.treated) = (\/ IsPdfContent(r.content_type)
                                 \/ IsPdfUrl(r.src, r.url)
                                 \/ IsPdfSignature(r.content))
            /\ (~IsPdfContent(r.content_type) /\ IsPdfSignature(r.content))
                   => Get(r.texto) = Str("texto")


(***************************************************************************)
(* extract_variables_progressive, await by await: the request to the LLM,  *)
(* the canonical append, the vector write and the final commit are steps   *)
(* of their own, and `history` records what was issued and what the stores *)
(* applied, in order.                                                      *)
(***************************************************************************)

\* what the LLM may answer for chunk i: an object, an object that also has
\* an `id`, or text that is not JSON
Replies(url, i) ==
    { LLMReply(url, i), DictSet(LLMReply(url, i), "id", Str("llm-id")), InvalidReply }

Event(op, i) == [op |-> op, i |-> i]

\* chunk_vars.get('apelido_edital') or accumulated_vars.get('apelido_edital') or 'Edital CNPq'
EditalName(chunk_vars, accumulated_vars) ==
    IF ~IsMissing(DictGet(chunk_vars, "apelido_edital"))
    THEN chunk_vars["apelido_edital"].s
    ELSE IF ~IsMissing(DictGet(accumulated_vars, "apelido_edital"))
         THEN accumulated_vars["apelido_edital"].s
         ELSE "Edital CNPq"

\* the for loop takes the next chunk, or the loop is over and link and uuid
\* are set again
Advance(x) ==
    IF x.i + 1 <= x.total
    THEN [x EXCEPT !.i = @ + 1, !.retry_count = 0, !.chunk_vars = Nothing,
                   !.pc = "request"]
    ELSE [x EXCEPT !.i = @ + 1, !.retry_count = 0, !.chunk_vars = Nothing,
                   !.pc = "final",
                   !.accumulated_vars =
                       DictSet(DictSet(@, "link", Str(x.pdf_url)),
                               "uuid", Str(x.edital_uuid))]

\* except Exception: retry_count += 1, and break after the last attempt
Raised(x) ==
    IF x.retry_count + 1 > MAX_RETRIES
    THEN Advance([x EXCEPT !.history = Append(@, Event("skip", x.i))])
    ELSE [x EXCEPT !.retry_count = @ + 1, !.chunk_vars = Nothing, !.pc = "request"]

\* an extractor that would vectorize what it has not appended
ReceivedUnsaved(x, chunk_vars) ==
    [x EXCEPT !.chunk_vars = Some(chunk_vars), !.pc = "vectorize"]

\* _extract_chunk returned chunk_vars: the canonical append is next
Received(x, chunk_vars) ==
    [x EXCEPT !.chunk_vars = Some(chunk_vars), !.pc = "save"]

\* accumulated_vars = self._merge_variables(...); success = True; the sleep
Merged(x) ==
    Advance([x EXCEPT !.accumulated_vars = MergeVariables(@, Get(x.chunk_vars)),
                      !.history = Append(@, Event("success", x.i))])

\* the extraction of the text of one PDF is called
InitExtract ==
    /\ job_repo = [j \in JobIds |-> Nothing]
    /\ running_jobs = <<>>
    /\ task = [j \in JobIds |-> IdleTask]
    /\ canceller = Nothing
    /\ editais = <<>>
    /\ chroma = <<>>
    /\ issued = <<>>
    /\ accepted = {}
    /\ returned = {}
    /\ cancels = 0
    /\ faults = MAX_RETRIES + 1 + MaxFaults
    /\ launches = 0
    /\ vector_service = BootedService
    /\ scheduler = IdleScheduler
    /\ conversation_repo = [c \in ConversationIds |-> Nothing]
    /\ sends = [s \in SendIds |-> IdleSend]
    /\ attempt = [j \in JobIds |-> IdleDownload]
    /\ listing = Nothing
    /\ response = Nothing
    /\ call = Nothing
    /\ \E n \in 1..MaxPdfs :
          extraction = Some([pc |-> "request", edital_uuid |-> "e1",
                             pdf_url |-> PdfUrl(n),
                             total |-> ChunkCount(PdfTextLen(n)),
                             i |-> 1, retry_count |-> 0, chunk_vars |-> Nothing,
                             accumulated_vars |->
                                 [k \in {"link", "uuid"} |->
                                     IF k = "link" THEN Str(PdfUrl(n)) ELSE Str("e1")],
                             history |-> <<>>])

UnchangedByExtract ==
    UNCHANGED <<job_repo, running_jobs, task, canceller, issued, accepted, returned,
                cancels, launches, vector_service, scheduler, conversation_repo,
                sends, attempt, listing, response, call>>

\* chunk_vars = await self._extract_chunk(chunk, i, len(chunks))
ExtractRequest ==
    /\ IsSome(extraction)
    /\ Get(extraction).pc = "request"
    /\ LET x == [Get(extraction) EXCEPT
                    !.history = Append(@, Event("request", Get(extraction).i))]
       IN  \/ /\ \E chunk_vars \in Replies(x.pdf_url, x.i) :
                    extraction' = Some(Received(
                        [x EXCEPT !.history = Append(@,
                            Event(IF chunk_vars = InvalidReply THEN "invalid" ELSE "object",
                                  x.i))],
                        chunk_vars))
              /\ UNCHANGED faults
           \/ /\ faults > 0
              /\ faults' = faults - 1
              /\ extraction' = Some(Raised(
                     [x EXCEPT !.history = Append(@, Event("error", x.i))]))
    /\ UNCHANGED <<editais, chroma>>
    /\ UnchangedByExtract

\* await self.edital_repo.save_partial_extraction(...): it returns, or it
\* raises with the $push applied or not
ExtractSave ==
    /\ IsSome(extraction)
    /\ Get(extraction).pc = "save"
    /\ LET x == Get(extraction)
           saved == SavePartialExtraction(editais, x.edital_uuid, x.i,
                                          Get(x.chunk_vars), "in_progress")
           appended == [x EXCEPT !.history = Append(@, Event("append", x.i))]
       IN  \/ /\ editais' = saved
              /\ extraction' = Some([appended EXCEPT !.pc = "vectorize"])
              /\ UNCHANGED faults
           \/ /\ faults > 0
              /\ faults' = faults - 1
              /\ \/ /\ editais' = saved
                    /\ extraction' = Some(Raised(
                           [appended EXCEPT !.history = Append(@, Event("unsaved", x.i))]))
                 \/ /\ UNCHANGED editais
                    /\ extraction' = Some(Raised(
                           [x EXCEPT !.history = Append(@, Event("unsaved", x.i))]))
    /\ UNCHANGED chroma
    /\ UnchangedByExtract

\* await self.chromadb_service.add_chunk(...) in its own try, then the merge
ExtractVectorize ==
    /\ IsSome(extraction)
    /\ Get(extraction).pc = "vectorize"
    /\ LET x == Get(extraction)
       IN  \/ /\ chroma' = AddChunk(chroma, x.edital_uuid,
                                    EditalName(Get(x.chunk_vars), x.accumulated_vars),
                                    x.i, x.total, x.pdf_url)
              /\ extraction' = Some(Merged(
                     [x EXCEPT !.history = Append(@, Event("vector", x.i))]))
              /\ UNCHANGED faults
           \/ /\ faults > 0
              /\ faults' = faults - 1
              /\ UNCHANGED chroma
              /\ extraction' = Some(Merged(x))
    /\ UNCHANGED editais
    /\ UnchangedByExtract

\* await self.edital_repo.save_final_extraction(...) and the return
ExtractFinal ==
    /\ IsSome(extraction)
    /\ Get(extraction).pc = "final"
    /\ LET x == Get(extraction)
       IN  \/ /\ editais' = SaveFinalExtraction(editais, x.edital_uuid,
                                                x.accumulated_vars, "completed")
              /\ extraction' = Some([x EXCEPT !.pc = "done",
                                       !.history = Append(@, Event("commit", 0))])
              /\ UNCHANGED faults
           \/ /\ faults > 0
              /\ faults' = faults - 1
              /\ UNCHANGED editais
              /\ extraction' = Some([x EXCEPT !.pc = "raised"])
    /\ UNCHANGED chroma
    /\ UnchangedByExtract

NextExtract == ExtractRequest \/ ExtractSave \/ ExtractVectorize \/ ExtractFinal

SpecExtract == InitExtract /\ [][NextExtract]_vars


\* the events of one kind on chunk i, as positions of the history
Positions(x, op, i) ==
    {k \in 1..Len(x.history) : x.history[k] = Event(op, i)}

\* the extraction_chunks of the edital of the extraction
ChunkRecords(x) ==
    IF x.edital_uuid \in DOMAIN editais
    THEN editais[x.edital_uuid].extraction_chunks
    ELSE <<>>

\* the records of chunk i, as positions of extraction_chunks
RecordsOf(x, i) ==
    {k \in 1..Len(ChunkRecords(x)) : ChunkRecords(x)[k].chunk_index = i}

\* C23: a chunk whose extraction failed on all max_retries+1 attempts, by
\* invalid JSON or by transport error, has a placeholder record
\* {erro: "resposta_invalida", raw: ...} with its index in extraction_chunks,
\* and the extractor goes on to the next chunk and to the final commit.
C23_ExhaustedChunkLeavesPlaceholder ==
    IsSome(extraction) =>
        LET x == Get(extraction)
        IN  \A i \in 1..x.total :
                Positions(x, "skip", i) # {} =>
                    /\ \E k \in RecordsOf(x, i) :
                          DictGet(ChunkRecords(x)[k].variables, "erro")
                              = Str("resposta_invalida")
                    /\ x.i > i
                    /\ x.pc \in {"request", "save", "vectorize", "final", "done"}


\* C24: the LLM is asked once for a chunk whose first attempt succeeds and
\* exactly max_retries+1 = 2 times for a chunk whose every attempt fails,
\* whether the failure is a reply that does not parse or a transport error.
C24_RequestsPerChunk ==
    (IsSome(extraction) /\ Get(extraction).pc \in {"final", "done", "raised"}) =>
        LET x == Get(extraction)
            requests(i) == Cardinality(Positions(x, "request", i))
            failures(i) == Cardinality(Positions(x, "invalid", i))
                           + Cardinality(Positions(x, "error", i))
                           + Cardinality(Positions(x, "unsaved", i))
        IN  \A i \in 1..x.total :
                /\ (failures(i) = 0 /\ Positions(x, "skip", i) = {})
                       => requests(i) = 1
                /\ Positions(x, "object", i) = {}
                       => requests(i) = MAX_RETRIES + 1


\* the positions of the history where a store was written
Writes(x) ==
    {k \in 1..Len(x.history) : x.history[k].op \in {"append", "vector", "commit"}}

\* C25: within one edital the canonical append of chunk i comes before the
\* vector write of chunk i, both come before the LLM request for chunk i+1,
\* and the final commit, with status `completed`, is the last write.
C25_AppendVectorNextCommit ==
    IsSome(extraction) =>
        LET x == Get(extraction)
        IN  /\ \A i \in 1..x.total :
                  /\ \A v \in Positions(x, "vector", i) :
                        \E a \in Positions(x, "append", i) : a < v
                  /\ \A r \in Positions(x, "request", i + 1) :
                        \A w \in Positions(x, "append", i) \cup Positions(x, "vector", i) :
                            w < r
                  /\ x.i > i =>
                        (Positions(x, "success", i) # {} =>
                            Positions(x, "append", i) # {})
            /\ \A c \in Positions(x, "commit", 0) :
                  /\ \A w \in Writes(x) : w <= c
                  /\ x.edital_uuid \in DOMAIN editais =>
                        editais[x.edital_uuid].extraction_status = "completed"

\* C25 happens: an extraction of two chunks appended and vectorized both and
\* committed
C25_Witness ==
    /\ IsSome(extraction)
    /\ LET x == Get(extraction)
       IN  /\ x.pc = "done"
           /\ x.total = 2
           /\ \A i \in 1..2 : /\ Positions(x, "append", i) # {}
                              /\ Positions(x, "vector", i) # {}


\* C26: the chunk_index values of one edital's extraction_chunks are pairwise
\* distinct, also when a chunk is retried after a failure of the LLM call, of
\* the canonical write or of the vector write.
C26_ChunkIndexUnique ==
    \A u \in DOMAIN editais :
        \A k, m \in 1..Len(editais[u].extraction_chunks) :
            editais[u].extraction_chunks[k].chunk_index
                = editais[u].extraction_chunks[m].chunk_index => k = m


\* the requests to the LLM issued before position v of the history
RequestsBefore(x, v) ==
    {k \in 1..(v - 1) : x.history[k].op = "request"}

\* the attempts that failed before position v of the history
FailuresBefore(x, v) ==
    {k \in 1..(v - 1) : x.history[k].op \in {"error", "unsaved"}}

\* the positions of the history where a vector entry was written
VectorWrites(x) ==
    {v \in 1..Len(x.history) : x.history[v].op = "vector"}

\* every vector entry has the id of its edital and index, and the canonical
\* store already holds a record of that edital with that index
EntryHasRecord ==
    \A id \in DOMAIN chroma :
        LET c == chroma[id]
        IN  /\ id = c.edital_uuid \o "_chunk_" \o ToString(c.chunk_index)
            /\ c.edital_uuid \in DOMAIN editais
            /\ \E k \in 1..Len(editais[c.edital_uuid].extraction_chunks) :
                  editais[c.edital_uuid].extraction_chunks[k].chunk_index
                      = c.chunk_index

\* C27 as stated: every vector entry {edital_id}_chunk_{i} was written with
\* the integer i of an extraction_chunks record that already exists, and i is
\* the ordinal of the LLM call that produced that record.
C27_IndexIsCallOrdinal ==
    /\ EntryHasRecord
    /\ IsSome(extraction) =>
          LET x == Get(extraction)
          IN  \A v \in VectorWrites(x) :
                  Cardinality(RequestsBefore(x, v)) = x.history[v].i

\* C27 as the code has it: every vector entry {edital_id}_chunk_{i} was
\* written with the integer i of an extraction_chunks record that already
\* exists; i is the ordinal of the chunk the producing LLM call was issued
\* for, and the ordinal of that call itself when no attempt failed before it.
C27_IndexIsChunkOrdinal ==
    /\ EntryHasRecord
    /\ IsSome(extraction) =>
          LET x == Get(extraction)
          IN  \A v \in VectorWrites(x) :
                  /\ RequestsBefore(x, v) # {}
                  /\ LET last == CHOOSE k \in RequestsBefore(x, v) :
                                     \A m \in RequestsBefore(x, v) : m <= k
                     IN  x.history[last].i = x.history[v].i
                  /\ FailuresBefore(x, v) = {} =>
                        Cardinality(RequestsBefore(x, v)) = x.history[v].i

\* C27 happens: the entry of chunk 2 was written after an attempt had failed
C27_Witness ==
    /\ IsSome(extraction)
    /\ ChunkId("e1", 2) \in DOMAIN chroma
    /\ LET x == Get(extraction)
       IN  \E v \in VectorWrites(x) : x.history[v].i = 2 /\ FailuresBefore(x, v) # {}


\* C28: whatever the LLM output carries for `link`, `uuid` or `id`, every
\* merge leaves the accumulator's link and uuid as they were, and at the
\* final commit they are the ingest URL and the edital id.
C28_SystemKeysKept ==
    /\ IsSome(extraction) =>
          LET x == Get(extraction)
          IN  /\ x.accumulated_vars["link"] = Str(x.pdf_url)
              /\ x.accumulated_vars["uuid"] = Str(x.edital_uuid)
              /\ (x.pc = "done" /\ x.edital_uuid \in DOMAIN editais) =>
                    LET v == Get(editais[x.edital_uuid].consolidated_variables)
                    IN  /\ v["link"] = Str(x.pdf_url)
                        /\ v["uuid"] = Str(x.edital_uuid)

\* C28 happens: replies with another link, uuid and id were merged and the
\* extraction committed
C28_Witness ==
    /\ IsSome(extraction)
    /\ LET x == Get(extraction)
       IN  /\ x.pc = "done"
           /\ x.edital_uuid \in DOMAIN editais
           /\ DictGet(x.accumulated_vars, "id") = Str("llm-id")
           /\ \E k \in 1..Len(ChunkRecords(x)) :
                 /\ DictGet(ChunkRecords(x)[k].variables, "link") \notin {None, Str(x.pdf_url)}
                 /\ DictGet(ChunkRecords(x)[k].variables, "uuid") \notin {None, Str(x.edital_uuid)}


\* C29: every write to an existing JobExecution document is issued by the
\* task that runs the job: no other task, a cancel request in particular,
\* changes the document, so no write of the run is overwritten by, or
\* overwrites, a concurrent writer.
C29_OnlyRunTaskWrites ==
    [][\A j \in JobIds :
          (IsSome(job_repo[j]) /\ job_repo'[j] # job_repo[j])
              => /\ task'[j] # task[j]
                 /\ canceller' = canceller]_vars


\* C30: within one job there is one pdf_processing_delay_ms sleep between the
\* end of one PDF and the start of the download of the next, on every path
\* through the loop, the empty-extraction and per-PDF-error paths included.
C30_SleepBeforeNextDownload ==
    \A j \in JobIds : task[j].pc = "download" => task[j].paced


(***************************************************************************)
(* _merge_variables as a function: an accumulator and the variables of a   *)
(* chunk are drawn and merged, the result is the next accumulator.         *)
(***************************************************************************)

\* the merges of one behaviour
MaxMerges == 2

\* what the LLM may put in a field
FieldValues ==
    {None, Str(""), Str("a"), Str("ab"), Num(0), Num(5), Bool(TRUE), Bool(FALSE)}

\* the dicts over link and two schema fields; a schema field may be absent
SchemaDicts ==
    UNION {[{"link"} \cup keys -> FieldValues \cup {Str("pdf1"), Str("http://llm/pdf1")}] :
              keys \in SUBSET {"apelido_edital", "custeio"}}

MergeInputs ==
    {d \in SchemaDicts :
        /\ d["link"] \in {Str("pdf1"), Str("http://llm/pdf1")}
        /\ \A k \in DOMAIN d \ {"link"} : d[k] \in FieldValues}

InitMerge ==
    /\ job_repo = [j \in JobIds |-> Nothing]
    /\ running_jobs = <<>>
    /\ task = [j \in JobIds |-> IdleTask]
    /\ canceller = Nothing
    /\ editais = <<>>
    /\ chroma = <<>>
    /\ issued = <<>>
    /\ accepted = {}
    /\ returned = {}
    /\ cancels = 0
    /\ faults = 0
    /\ launches = 0
    /\ vector_service = BootedService
    /\ scheduler = IdleScheduler
    /\ conversation_repo = [c \in ConversationIds |-> Nothing]
    /\ sends = [s \in SendIds |-> IdleSend]
    /\ attempt = [j \in JobIds |-> IdleDownload]
    /\ listing = Nothing
    /\ response = Nothing
    /\ extraction = Nothing
    /\ \E accumulated \in MergeInputs :
          call = Some([fn |-> "_merge_variables", before |-> Nothing, new |-> Nothing,
                       accumulated |-> accumulated, merges |-> 0])

UnchangedByCall ==
    UNCHANGED <<job_repo, running_jobs, task, canceller, editais, chroma, issued,
                accepted, returned, cancels, faults, launches, vector_service,
                scheduler, conversation_repo, sends, attempt, listing, response,
                extraction>>

\* accumulated = self._merge_variables(accumulated, new)
Merge ==
    /\ IsSome(call)
    /\ Get(call).fn = "_merge_variables"
    /\ Get(call).merges < MaxMerges
    /\ \E new \in MergeInputs \cup {Get(call).accumulated} :
          call' = Some([fn |-> "_merge_variables",
                        before |-> Some(Get(call).accumulated),
                        new |-> Some(new),
                        accumulated |-> MergeVariables(Get(call).accumulated, new),
                        merges |-> Get(call).merges + 1])
    /\ UnchangedByCall

NextMerge == Merge

SpecMerge == InitMerge /\ [][NextMerge]_vars

\* a merge has been made
Merged1 == IsSome(call) /\ Get(call).fn = "_merge_variables" /\ IsSome(Get(call).before)

\* C31: merge is idempotent: merge(acc, acc) = acc for every accumulator.
C31_MergeIdempotent ==
    (Merged1 /\ Get(Get(call).new) = Get(Get(call).before))
        => Get(call).accumulated = Get(Get(call).before)

\* C31 happens: an accumulator with a string, a number or bool and an empty
\* field was merged with itself
C31_Witness ==
    /\ Merged1
    /\ Get(Get(call).new) = Get(Get(call).before)
    /\ LET acc == Get(Get(call).before)
       IN  /\ DOMAIN acc = {"link", "apelido_edital", "custeio"}
           /\ acc["apelido_edital"] = Str("ab")
           /\ acc["custeio"] = Bool(FALSE)


\* C32: merge is biased to information: for a non-system field, merging a
\* non-null, non-empty value v into a null or empty (or absent) accumulator
\* field yields v, and merging null or the empty string into a field that
\* holds v leaves v.
C32_MergeBiasedToInformation ==
    Merged1 =>
        LET acc == Get(Get(call).before)
            new == Get(Get(call).new)
            out == Get(call).accumulated
        IN  \A k \in (DOMAIN acc \cup DOMAIN new) \ SystemKeys :
                /\ (k \in DOMAIN new /\ ~IsMissing(new[k]) /\ IsMissing(DictGet(acc, k)))
                       => (k \in DOMAIN out /\ out[k] = new[k])
                /\ (k \in DOMAIN acc /\ ~IsMissing(acc[k]) /\ IsMissing(DictGet(new, k)))
                       => (k \in DOMAIN out /\ out[k] = acc[k])

\* C32 happens: one merge filled an empty field with false and kept a string
\* against an empty string
C32_Witness ==
    /\ Merged1
    /\ LET acc == Get(Get(call).before)
           new == Get(Get(call).new)
       IN  /\ DOMAIN acc = {"link", "apelido_edital", "custeio"}
           /\ DOMAIN new = DOMAIN acc
           /\ acc["custeio"] = Str("") /\ new["custeio"] = Bool(FALSE)
           /\ acc["apelido_edital"] = Str("ab") /\ new["apelido_edital"] = Str("")

\* C39: once the accumulator holds a non-null value for the boolean field
\* `custeio` (or `capital`), no later merge changes it: the first non-null
\* value wins, be it true or false.
C39_FirstBooleanWins ==
    Merged1 =>
        LET acc == Get(Get(call).before)
            out == Get(call).accumulated
        IN  ("custeio" \in DOMAIN acc /\ acc["custeio"] \in {Bool(TRUE), Bool(FALSE)})
                => out["custeio"] = acc["custeio"]


(***************************************************************************)
(* _chunk_text as a function of the text, chunk_size and overlap.  A text  *)
(* is the sequence of its characters; positions count from 0 as in Python. *)
(***************************************************************************)

\* the longest text drawn and the largest chunk_size drawn
MaxText == 4
MaxSize == 3

Chars == {"x", " "}
IsSpace(c) == c = " "

\* text[start:end]
Slice(text, start, end) ==
    SubSeq(text, start + 1, Min(end, Len(text)))

\* the whitespace characters str.strip() removes at the front
RECURSIVE Leading(_)
Leading(str) ==
    IF str # <<>> /\ IsSpace(Head(str)) THEN 1 + Leading(Tail(str)) ELSE 0

\* the whitespace characters str.strip() removes at the back
RECURSIVE Trailing(_)
Trailing(str) ==
    IF str # <<>> /\ IsSpace(str[Len(str)])
    THEN 1 + Trailing(SubSeq(str, 1, Len(str) - 1))
    ELSE 0

\* str.strip()
Strip(str) ==
    IF Leading(str) = Len(str) THEN <<>>
    ELSE SubSeq(str, Leading(str) + 1, Len(str) - Trailing(str))

\* a step that would leave the overlap out twice
StepPastOverlap(chunk_size, overlap) == chunk_size + overlap

\* start += chunk_size - overlap
Step(chunk_size, overlap) == chunk_size - overlap

\* the while loop of _chunk_text from `start` on
RECURSIVE ChunkText(_, _, _, _)
ChunkText(text, start, chunk_size, overlap) ==
    IF start < Len(text)
    THEN <<Strip(Slice(text, start, start + chunk_size))>>
         \o ChunkText(text, start + Step(chunk_size, overlap), chunk_size, overlap)
    ELSE <<>>

InitChunking ==
    /\ job_repo = [j \in JobIds |-> Nothing]
    /\ running_jobs = <<>>
    /\ task = [j \in JobIds |-> IdleTask]
    /\ canceller = Nothing
    /\ editais = <<>>
    /\ chroma = <<>>
    /\ issued = <<>>
    /\ accepted = {}
    /\ returned = {}
    /\ cancels = 0
    /\ faults = 0
    /\ launches = 0
    /\ vector_service = BootedService
    /\ scheduler = IdleScheduler
    /\ conversation_repo = [c \in ConversationIds |-> Nothing]
    /\ sends = [s \in SendIds |-> IdleSend]
    /\ attempt = [j \in JobIds |-> IdleDownload]
    /\ listing = Nothing
    /\ response = Nothing
    /\ extraction = Nothing
    /\ \E n \in 0..MaxText, chunk_size \in 1..MaxSize :
          \E text \in [1..n -> Chars], overlap \in 0..(chunk_size - 1) :
             call = Some([fn |-> "_chunk_text", text |-> text,
                          chunk_size |-> chunk_size, overlap |-> overlap,
                          chunks |-> Nothing])

\* chunks = self._chunk_text(text)
ChunkTextCall ==
    /\ IsSome(call)
    /\ Get(call).fn = "_chunk_text"
    /\ Get(call).chunks = Nothing
    /\ call' = Some([Get(call) EXCEPT !.chunks =
                        Some(ChunkText(Get(call).text, 0, Get(call).chunk_size,
                                       Get(call).overlap))])
    /\ UnchangedByCall

NextChunking == ChunkTextCall

SpecChunking == InitChunking /\ [][NextChunking]_vars

\* _chunk_text has returned
Chunked == IsSome(call) /\ Get(call).fn = "_chunk_text" /\ IsSome(Get(call).chunks)

\* C33: for every text, chunk size S and overlap O < S the loop terminates,
\* chunk i is the whitespace-stripped slice [i*(S-O), i*(S-O)+S) of the text,
\* and the slices cover every position of the text, each character that is
\* not whitespace being kept by the strip at its place.
C33_ChunksCoverText ==
    Chunked =>
        LET c == Get(call)
            chunks == Get(c.chunks)
            from(k) == k * (c.chunk_size - c.overlap)
            width(k) == Min(c.chunk_size, Len(c.text) - from(k))
            lead(k) == CHOOSE n \in 0..width(k) :
                           /\ \A m \in 1..n : c.text[from(k) + m] = " "
                           /\ n < width(k) => c.text[from(k) + n + 1] # " "
        IN  /\ \A i \in 0..(Len(chunks) - 1) :
                  /\ from(i) < Len(c.text)
                  /\ \A q \in 1..Len(chunks[i + 1]) :
                        chunks[i + 1][q] = c.text[from(i) + lead(i) + q]
                  /\ chunks[i + 1] # <<>> =>
                        /\ chunks[i + 1][1] # " "
                        /\ chunks[i + 1][Len(chunks[i + 1])] # " "
            /\ from(Len(chunks)) >= Len(c.text)
            /\ \A p \in 1..Len(c.text) :
                  \E i \in 0..(Len(chunks) - 1) :
                      /\ from(i) < p /\ p <= from(i) + c.chunk_size
                      /\ c.text[p] # " " =>
                            /\ p - from(i) - lead(i) \in 1..Len(chunks[i + 1])
                            /\ chunks[i + 1][p - from(i) - lead(i)] = c.text[p]

\* C33 happens: a text of several chunks with whitespace at a chunk boundary
C33_Witness ==
    /\ Chunked
    /\ Len(Get(Get(call).chunks)) >= 3
    /\ Get(call).overlap > 0
    /\ \E i \in 1..Len(Get(Get(call).chunks)) :
          Len(Get(Get(call).chunks)[i]) < Min(Get(call).chunk_size, Len(Get(call).text))
    /\ \E p \in 1..Len(Get(call).text) : Get(call).text[p] = "x"


(***************************************************************************)
(* The links an adapter takes from a page: extract_download_links          *)
(* (CONFAP), extract_pdf_links (FINEP) and the loop of                     *)
(* scrape_paraiba_gov_editais without its date filter.  An href is the     *)
(* sequence of its pieces, the site's origin being one piece.              *)
(***************************************************************************)

\* the most <a href> elements of a page
MaxLinks == 3

LinkSources == {"confap", "finep", "paraiba_gov"}

\* the origin each adapter puts before a relative href
Origin(src) ==
    CASE src = "confap" -> "https://confap.org.br"
      [] src = "finep" -> "http://www.finep.gov.br"
      [] OTHER -> "https://paraiba.pb.gov.br"

\* what follows the origin: a download, a PDF, a page
Paths == { <<"download", "/7">>, <<"edital", ".pdf">>, <<"sobre">> }

\* the hrefs of a page of src: absolute, rooted or relative
Hrefs(src) ==
    UNION { { <<Origin(src), "/">> \o p, <<"/">> \o p, p } : p \in Paths }

\* href.startswith('http')
StartsWithHttp(href) ==
    href # <<>> /\ href[1] \in {Origin(s) : s \in LinkSources}

\* "Garantir URL absoluta"
AbsoluteUrl(src, href) ==
    IF StartsWithHttp(href) THEN href
    ELSE IF href[1] = "/" THEN <<Origin(src)>> \o href
    ELSE <<Origin(src), "/">> \o href

\* the hrefs of all_links that pass the test, made absolute, in order
RECURSIVE Selected(_, _, _)
Selected(src, all_links, pattern) ==
    IF all_links = <<>> THEN <<>>
    ELSE (IF (pattern = "download" /\ Contains(Lower(Head(all_links)), "download"))
             \/ (pattern = ".pdf in" /\ Contains(Lower(Head(all_links)), ".pdf"))
             \/ (pattern = ".pdf end" /\ EndsWith(Lower(Head(all_links)), ".pdf"))
          THEN <<AbsoluteUrl(src, Head(all_links))>>
          ELSE <<>>)
         \o Selected(src, Tail(all_links), pattern)

\* the Paraíba loop: an href seen before is skipped (processed_urls)
RECURSIVE SelectedOnce(_, _, _)
SelectedOnce(src, all_links, processed_urls) ==
    IF all_links = <<>> THEN <<>>
    ELSE LET href == Head(all_links)
         IN  IF ~EndsWith(Lower(href), ".pdf") \/ href \in processed_urls
             THEN SelectedOnce(src, Tail(all_links), processed_urls)
             ELSE <<AbsoluteUrl(src, href)>>
                  \o SelectedOnce(src, Tail(all_links), processed_urls \cup {href})

\* the list the adapter returns for the page
ExtractLinks(src, all_links) ==
    CASE src = "confap" ->
            IF Selected(src, all_links, "download") # <<>>
            THEN Selected(src, all_links, "download")
            ELSE Selected(src, all_links, ".pdf end")
      [] src = "finep" -> Selected(src, all_links, ".pdf in")
      [] OTHER -> SelectedOnce(src, all_links, {})

InitLinks ==
    /\ job_repo = [j \in JobIds |-> Nothing]
    /\ running_jobs = <<>>
    /\ task = [j \in JobIds |-> IdleTask]
    /\ canceller = Nothing
    /\ editais = <<>>
    /\ chroma = <<>>
    /\ issued = <<>>
    /\ accepted = {}
    /\ returned = {}
    /\ cancels = 0
    /\ faults = 0
    /\ launches = 0
    /\ vector_service = BootedService
    /\ scheduler = IdleScheduler
    /\ conversation_repo = [c \in ConversationIds |-> Nothing]
    /\ sends = [s \in SendIds |-> IdleSend]
    /\ attempt = [j \in JobIds |-> IdleDownload]
    /\ listing = Nothing
    /\ response = Nothing
    /\ extraction = Nothing
    /\ \E src \in LinkSources, n \in 0..MaxLinks :
          \E all_links \in [1..n -> Hrefs(src)] :
             call = Some([fn |-> "extract_links", src |-> src, all_links |-> all_links,
                          links |-> Nothing])

\* the adapter goes over the page and returns
ExtractLinksCall ==
    /\ IsSome(call)
    /\ Get(call).fn = "extract_links"
    /\ Get(call).links = Nothing
    /\ call' = Some([Get(call) EXCEPT !.links =
                        Some(ExtractLinks(Get(call).src, Get(call).all_links))])
    /\ UnchangedByCall

NextLinks == ExtractLinksCall

SpecLinks == InitLinks /\ [][NextLinks]_vars

\* C34: no absolute URL is returned twice by an adapter: the listing and the
\* PDF links of a call hold each absolute URL at most once, so no PDF is
\* processed twice in a run.
C34_NoUrlTwice ==
    (IsSome(call) /\ Get(call).fn = "extract_links" /\ IsSome(Get(call).links)) =>
        LET links == Get(Get(call).links)
        IN  \A a, b \in 1..Len(links) : links[a] = links[b] => a = b


\* C35: whenever extract_variables_progressive returns normally for an
\* edital id, a canonical record with that id exists with status `completed`
\* and non-null consolidated_variables, also when every chunk failed.
C35_ReturnedMeansCompleted ==
    (IsSome(extraction) /\ Get(extraction).pc = "done") =>
        LET x == Get(extraction)
        IN  /\ x.edital_uuid \in DOMAIN editais
            /\ editais[x.edital_uuid].extraction_status = "completed"
            /\ IsSome(editais[x.edital_uuid].consolidated_variables)


\* C38: the consolidated_variables of a completed edital, and the top-level
\* fields copied from them, never hold the placeholder keys `erro` and `raw`
\* of a chunk whose reply was not valid JSON.
C38_NoPlaceholderKeysConsolidated ==
    \A u \in DOMAIN editais :
        (editais[u].extraction_status = "completed"
            /\ IsSome(editais[u].consolidated_variables)) =>
            /\ DOMAIN Get(editais[u].consolidated_variables) \cap {"erro", "raw"} = {}
            /\ DOMAIN editais[u].top \cap {"erro", "raw"} = {}


\* the send_message calls on conversation c that returned successfully
Succeeded(c) ==
    {s \in SendIds : /\ sends[s].pc = "returned"
                     /\ sends[s].op = "send"
                     /\ sends[s].conversation_id = c
                     /\ Get(sends[s].result).status = 200}

\* C36: whatever the interleaving of the send_message calls on one
\* conversation, the persisted conversation holds the user turn and the
\* assistant turn of every call that returned successfully: no exchange is
\* lost.
C36_NoExchangeLost ==
    \A c \in ConversationIds :
        IsSome(conversation_repo[c]) =>
            LET messages == Get(conversation_repo[c]).messages
                turns == {messages[i] : i \in 1..Len(messages)}
            IN  /\ Len(messages) >= 2 * Cardinality(Succeeded(c))
                /\ \A s \in Succeeded(c) :
                      /\ ChatMessage("user", sends[s].user_message, <<>>) \in turns
                      /\ \E m \in turns : /\ m.role = "assistant"
                                          /\ m.content = Get(sends[s].result).message


\* a step in which cancel_job(j) is called: it flags the id and goes on to
\* the record, or it returns False at once
CancelStepOn(j) ==
    /\ cancels' = cancels - 1
    /\ \/ canceller'.pc = "find" /\ canceller'.job_id = j
       \/ /\ canceller' = canceller
          /\ returned' = returned \cup
                {[job_id |-> j, result |-> FALSE, pc |-> task[j].pc]}

\* C37: after a run task has ended, by completion, by critical failure or
\* because its record was not found, its id is absent from running_jobs, and
\* a cancel_job call made after that returns False and leaves the persisted
\* job record as it is.
C37_EndedRunNotCancellable ==
    /\ [](\A j \in JobIds : task[j].pc = "done" => j \notin DOMAIN running_jobs)
    /\ [][\A j \in JobIds :
            (task[j].pc = "done" /\ CancelStepOn(j)) =>
                /\ canceller'.pc = "idle"
                /\ [job_id |-> j, result |-> FALSE, pc |-> "done"] \in returned'
                /\ job_repo' = job_repo
                /\ running_jobs' = running_jobs]_vars

\* cancel_job was called on a job whose run had ended by completion, and it
\* returned False
C37_Witness ==
    \E j \in JobIds :
        /\ [job_id |-> j, result |-> FALSE, pc |-> "done"] \in returned
        /\ IsSome(job_repo[j])
        /\ Get(job_repo[j]).status = "completed"

=============================================================================
